---- MODULE Spec2Model ----
(***************************************************************************)
(* Verification model of mcp-z/client: the process spawner's close()       *)
(* (src/spawn/spawn-server.ts), the server registry's shared stdio leases, *)
(* client set and ordered shutdown (src/spawn/spawn-servers.ts), the       *)
(* transport inference of the connection negotiator (src/connection/       *)
(* connect-client.ts), the OAuth capability discovery chain                *)
(* (auth/capability-discovery.ts, auth/rfc9728-discovery.ts), the DCR      *)
(* authenticator with its token store (src/dcr/dcr-authenticator.ts), the  *)
(* interactive OAuth flow with its callback listener                       *)
(* (auth/interactive-oauth-flow.ts, auth/oauth-callback-listener.ts), the  *)
(* HTTP path of connectMcpClient with its readiness polling and its        *)
(* withTimeout races, the spawn loop of createServerRegistry, and the      *)
(* listeners ExistingProcessTransport keeps on a shared process            *)
(* (src/connection/existing-process-transport.ts).                         *)
(*                                                                         *)
(* JavaScript is single threaded: every action below is one run-to-        *)
(* completion step (the synchronous part of a call up to its first await,  *)
(* a promise continuation, a timer callback or an event emission).         *)
(***************************************************************************)
EXTENDS Integers, Sequences, FiniteSets, TLC

\* The stdio server names of the configuration (keys of serversConfig whose
\* entry has a command and no url).
Names == {"a", "b"}

\* The keys of serversConfig whose entry has an http(s) url: the registry
\* connects them without a shared entry.
HttpNames == {"h"}

\* A name that is not a key of serversConfig.
UnknownNames == {"zz"}

\* The names whose process the registry spawned at construction (the keys
\* of registry.servers); "b" is a stdio entry connected without a handle.
Spawned == {"a"}

\* The process exercised on its own by the process-handle specification.
Solo == "a"

\* Bound: number of close() calls made on one process handle.
MaxStopCalls == 2

\* Bound: number of registry.connect() calls.
MaxConnects == 3

\* Bound: number of registry.connect() calls in the runs that also shut the
\* registry down.
MaxTracked == 2

Ids == 1..MaxConnects

VARIABLES
    child,      \* child[n]: the ChildProcess of handle n (exitCode, signalCode, killed, ...)
    stops,      \* stops[n]: the close() calls made on handle n, in call order
    cfg,        \* the McpServerEntry a connection is negotiated for
    neg,        \* the negotiation of that connection: inference results and first transport
    sharedStdioClients, \* name -> id of the shared entry stored under it (0: none)
    entry,      \* entry[e]: the shared-entry object created by connect call e
    lease,      \* lease[l]: the connect call l and the lease proxy it returned
    clients,    \* registry.clients, in insertion order
    connects,   \* number of registry.connect calls made so far
    reg,        \* the registry.close() call
    web,        \* what the probed HTTP server answers: challenge headers and metadata documents
    probe,      \* the probeAuthCapabilities call in progress
    runs,       \* the probeAuthCapabilities calls that have returned, in call order
    store,      \* the token store: key -> TokenSet
    auth,       \* the DcrAuthenticator call in progress or last made
    flow,       \* the performAuthFlow call and the OAuthCallbackListener it created
    http,       \* the connectMcpClient call for an HTTP server
    boot        \* the createServerRegistry call: the entries it went through

procVars == <<child, stops>>
negVars == <<cfg, neg>>
regVars == <<sharedStdioClients, entry, lease, clients, connects, reg>>
probeVars == <<web, probe, runs>>
tokenVars == <<store, auth>>
authVars == <<web, probe, runs, store, auth>>
extVars == <<flow, http, boot>>
vars == <<child, stops, cfg, neg, sharedStdioClients, entry, lease, clients, connects, reg,
          web, probe, runs, store, auth, flow, http, boot>>

Range(seq) == {seq[i] : i \in DOMAIN seq}

\* No connection is being negotiated.
NoNegotiation ==
    [pc |-> "config", viaRegistry |-> FALSE, route |-> "none", registryType |-> "none",
     inferred |-> "none", attempt |-> "none", error |-> "none"]

NegIdle ==
    /\ cfg = [type |-> "none", url |-> "", command |-> TRUE, spawned |-> TRUE]
    /\ neg = NoNegotiation

\* A shared entry { client?, connecting?, refs } of sharedStdioClients.
NoEntry ==
    [name     |-> "none",
     status   |-> "none",   \* "fresh": neither client nor connecting is set;
                            \* "connecting": connecting is pending; "failed": it rejected;
                            \* "connected" | "closing" | "closed" | "closeFailed": client is set
     refs     |-> 0,
     attempts |-> 0,        \* connectMcpClient calls started for the entry
     closes   |-> 0,        \* close() calls made on the entry's client
     waiters  |-> << >>,    \* connect calls suspended at `await entry.connecting`
     closers  |-> {}]       \* lease closes suspended at `await target.close()`

\* A registry.connect call and the lease it returns.
NoLease ==
    [state      |-> "none", \* "waiting" | "held" | "released" | "rejected" | "notFound"
     name       |-> "none",
     entry      |-> 0,
     closeState |-> "none", \* the promise of lease.close(): "pending" | "fulfilled" | "rejected"
     toreDown   |-> FALSE,  \* its close() called close() on the shared client
     available  |-> {},     \* the server names listed by its "not found" error
     overlaps   |-> {}]     \* the calls for the same name that were still waiting, on an
                            \* attempt that had not failed, when this call was made

\* registry.close() has not been called.
NoRegistryClose ==
    [phase |-> "open",      \* "closingClients" | "closingServers" | "closed" | "rejected"
     snapshot |-> << >>,    \* Array.from(clients)
     timedOut |-> FALSE,
     killedCount |-> 0]

RegIdle ==
    /\ sharedStdioClients = [n \in Names |-> 0]
    /\ entry = [e \in Ids |-> NoEntry]
    /\ lease = [l \in Ids |-> NoLease]
    /\ clients = << >>
    /\ connects = 0
    /\ reg = NoRegistryClose

\* Bound: number of probeAuthCapabilities calls made against one server.
MaxProbes == 2

\* No protected-resource metadata (null).
NoPrm == [found |-> FALSE, resource |-> "", as |-> "none", scopes |-> FALSE]

\* No authorization-server metadata (null).
NoAsMetadata == [found |-> FALSE, issuer |-> "none", reg |-> FALSE, scopes |-> FALSE]

\* An endpoint the server has not been asked for yet.
Unasked(body) == [status |-> "unasked", body |-> body]

\* { supportsDcr: false }
NoCapabilities ==
    [supportsDcr |-> FALSE, registrationEndpoint |-> "none",
     authorizationEndpoint |-> "none", scopes |-> "none"]

\* The base URL of a probe: a URL of the server with a path and possibly a
\* trailing slash or a query string, or a string that is not a URL.
NoUrl == [valid |-> TRUE, path |-> "", suffix |-> ""]

\* No probeAuthCapabilities call is running.
NoProbe ==
    [pc       |-> "idle",
     baseUrl  |-> NoUrl,
     resource |-> NoUrl,      \* normalizedBaseUrl
     md       |-> NoPrm,      \* resourceMetadata
     root     |-> NoPrm,      \* rootMetadata kept as the fallback of the sub-path probe
     target   |-> "none",     \* the authorization server being asked
     metadata |-> NoAsMetadata, \* the authorization-server metadata the result was built from
     caps     |-> NoCapabilities,
     outcome  |-> "none",     \* "resolved" | "rejected"
     caught   |-> FALSE,      \* the outer catch of probeAuthCapabilities was taken
     failures |-> {},         \* the kinds of failed fetches seen: "network" | "non2xx" | "badjson"
     asked    |-> << >>,      \* the authorization servers asked for metadata, in order:
                              \* [source: "listed" | "issuer" | "origin", server]
     seen     |-> [header |-> "unasked",      \* WWW-Authenticate of the last answer of the resource
                   root   |-> Unasked(NoPrm), \* the answer of the root well-known location
                   sub    |-> Unasked(NoPrm)]] \* the answer of the sub-path location

\* The server before any probe: stable servers answer one endpoint the
\* same way every time and are always reachable.
NewWeb(stable) ==
    [stable    |-> stable,
     challenge |-> "unasked",   \* WWW-Authenticate of the resource: "none" | "issuer" |
                                \* "resource_metadata" | "both" | "postOnly" (resource_metadata,
                                \* sent in answer to POST only)
     headerPrm |-> Unasked(NoPrm),
     rootPrm   |-> Unasked(NoPrm),
     subPrm    |-> [x \in {"/mcp", "/api/v1/mcp"} |-> Unasked(NoPrm)],
     as        |-> [a \in {"self", "other"} |-> Unasked(NoAsMetadata)]]

\* Bound: number of ensureAuthenticated calls made on one authenticator.
MaxAuthCalls == 2

\* Date.now(), in milliseconds.
Now == 1000000

\* Buffer time before token expiry that triggers the proactive refresh
\* (5 minutes, in milliseconds).
REFRESH_BUFFER_MS == 300000

\* The base URLs of the servers authenticated against.
AuthUrls == {"https://api.example.com", "http://localhost:3000"}

\* The keys of the token store.
StoreKeys == {<<prefix, b>> : prefix \in {"tokens:", "dcr-tokens:"}, b \in AuthUrls}

\* No TokenSet (undefined).
NoToken == [accessToken |-> "none", expiresAt |-> 0, creds |-> "none"]

\* No AuthCapabilities were passed.
NoEndpoints == [registrationEndpoint |-> FALSE, authorizationEndpoint |-> FALSE,
                tokenEndpoint |-> FALSE]

\* No authenticator call has been made.
NoAuth ==
    [op       |-> "none",    \* "ensureAuthenticated" | "deleteTokens"
     pc       |-> "idle",
     calls    |-> 0,         \* ensureAuthenticated calls made so far
     baseUrl  |-> "none",
     caps     |-> NoEndpoints,
     mode     |-> "none",    \* "selfHosted" | "external"
     found    |-> NoToken,   \* what tokenStore.get returned
     tokens   |-> NoToken,   \* the local variable tokens
     refresh  |-> "none",    \* how the refresh ended: "ok" | "failed"
     lifetime |-> 0,         \* expires_in granted by the refresh, in seconds
     verified |-> "none",    \* the access token /oauth/verify echoed in this call
     verifyFailed |-> {},    \* the tokens ("stored", "new") whose verification failed
     refreshCalls  |-> 0,    \* requests sent to the token endpoint for a refresh
     registrations |-> 0,    \* DCR registration requests sent
     flows    |-> 0,         \* performAuthFlow calls
     sets     |-> 0,         \* tokenStore.set calls
     deletes  |-> 0,         \* tokenStore.delete calls
     result   |-> "none",    \* "returned" | "failed"
     returned |-> NoToken,
     error    |-> "none",
     before   |-> [k \in StoreKeys |-> NoToken]]  \* the store when the call was made

ProbeIdle ==
    /\ web = NewWeb(TRUE)
    /\ probe = NoProbe
    /\ runs = << >>

TokensIdle ==
    /\ store = [k \in StoreKeys |-> NoToken]
    /\ auth = NoAuth

AuthIdle ==
    /\ ProbeIdle
    /\ TokensIdle

\* Bound: number of requests the callback server receives.
MaxCallbacks == 2

\* performAuthFlow has not been called; no OAuthCallbackListener exists.
NoFlow ==
    [pc          |-> "idle",   \* "pkce" | "start" | "wait" | "exchange" | "finally" | "done";
                               \* of a caller that drives the listener itself: "listen" |
                               \* "started" | "waiting" | "settled" | "stopped"
     pkce        |-> FALSE,    \* options.pkce
     validUrl    |-> TRUE,     \* new URL(authorizationEndpoint) does not throw
     started     |-> FALSE,    \* callbackListener.start() has been called
     server      |-> FALSE,    \* this.server is defined
     handle      |-> "none",   \* the listening socket: "binding" | "listening" | "failed" | "closed"
     timeout     |-> FALSE,    \* this.timeout holds a pending timer
     callbacks   |-> FALSE,    \* this.resolveCallback / this.rejectCallback are set
     wait        |-> "none",   \* the waitForCallback promise: "pending" | "code" | "error" | ...
     connections |-> 0,        \* sockets open on the server
     requests    |-> 0,        \* requests received so far
     dropped     |-> 0,        \* /callback requests that found no resolveCallback / rejectCallback
     received    |-> << >>,    \* the /callback requests received, in order
     closing     |-> {},       \* the stop() calls awaiting the server's 'close' event
     stopCalls   |-> 0,        \* stop() calls made
     exchanges   |-> 0,        \* requests sent to the token endpoint
     pending     |-> "none",   \* what the try block returned or threw
     outcome     |-> "none"]   \* what performAuthFlow settled with

FlowIdle == flow = NoFlow

\* The names of the configuration handed to createServerRegistry.
BootNames == {"a", "h"}

\* connectMcpClient has not been called for the HTTP server.
NoHttp ==
    [pc        |-> "idle",    \* "polling" | "sleep" | "discovery" | "token" | "streamable"
                              \* | "refusedClose" | "sse" | "cleanup" | "done"
     spawned   |-> FALSE,     \* registry.servers has the name
     i         |-> 0,         \* waitForHttpReady: the loop counter
     elapsed   |-> 0,         \* waitForHttpReady: Date.now() - start, in ms
     ready     |-> "none",    \* waitForHttpReady: "ready" | "notReady"
     caps      |-> "none",    \* capabilities.supportsDcr: "dcr" | "noDcr"
     authToken |-> "none",    \* authToken: "none" is undefined
     static    |-> "unread",  \* the key of the header in serverConfig.headers ("none": no headers)
     log       |-> << >>,     \* the steps started, in order
     running   |-> {},        \* the operations started and not yet settled
     timers    |-> [op \in {"discovery", "streamable", "sse"} |-> "none"],
                              \* withTimeout's timer: "pending" | "cleared" | "fired"
     raced     |-> [op \in {"discovery", "streamable", "sse"} |->
                       [by |-> "none", ms |-> 0, operation |-> ""]],
                              \* what withTimeout settled with: by "operation", or by
                              \* "timer" with the error 'Timeout after {ms}ms: {operation}'
     overlap   |-> FALSE,     \* a step was started while an earlier one was still running
     attempts  |-> << >>,     \* the transports constructed: [transport, headers]
     last      |-> 0,         \* waitForHttpReady: the status of the last HEAD response
                              \* (0: none yet, -1: fetch threw)
     error     |-> [thrown |-> FALSE, cause |-> "none", message |-> {}],
                              \* what the Streamable HTTP attempt threw
     sseError  |-> "none",    \* what the SSE attempt threw
     created   |-> {},        \* the protocol clients constructed
     closes    |-> [c \in {"client", "sseClient"} |-> "no"],  \* close(): "pending" | "settled"
     result    |-> "none"]    \* the client returned, or the error thrown

HttpIdle == http = NoHttp

\* A name the configuration has no entry for.
AbsentEntry ==
    [present |-> FALSE, type |-> "none", url |-> "", command |-> FALSE, start |-> FALSE]

\* createServerRegistry has not been called.
NoBoot ==
    [pc       |-> "idle",     \* "done" | "threw"
     dialects |-> {},
     config   |-> [n \in BootNames |-> AbsentEntry],
     source   |-> [n \in BootNames |-> "none"],  \* the spawn configuration: "start" | "command"
     spawn    |-> [n \in BootNames |-> "none"],  \* spawnProcess: "ok" | "threw" | "errorEvent"
     servers  |-> {},                             \* the names registry.servers has a handle for
     logged   |-> {},                             \* names with a 'start ERROR' log line
     emitted  |-> {},                             \* names whose child has emitted 'error'
     later    |-> [n \in BootNames |-> "none"]]  \* what a later connect(name) started or threw

BootIdle == boot = NoBoot

ExtIdle ==
    /\ FlowIdle
    /\ HttpIdle
    /\ BootIdle

(***************************************************************************)
(* src/spawn/spawn-server.ts : spawnProcess / stop                         *)
(***************************************************************************)

\* What spawn() hands back: a running child, or one whose spawn failed and
\* whose 'error' event is still to be emitted on the next tick.
SpawnedChild(alive) ==
    [alive       |-> alive,      \* "running" | "spawnFailing" | "gone"
     exitCode    |-> FALSE,      \* child.exitCode !== null
     signalCode  |-> FALSE,      \* child.signalCode !== null
     closeEmitted|-> FALSE,      \* the 'close' event has been emitted
     killed      |-> FALSE,      \* child.killed
     graceful    |-> 0,          \* graceful signals delivered to the process
     sigkill     |-> 0,          \* SIGKILLs delivered to the process
     listeners   |-> [process |-> 0, stdout |-> 0, stdin |-> 0],
                                 \* listeners that transports hold on the process, on
                                 \* child.stdout and on child.stdin
     transports  |-> 0,          \* transports started on the process and not closed
     late        |-> 0]          \* 'close' notifications delivered to closed transports

ProcIdle ==
    /\ child = [n \in Spawned |-> SpawnedChild("running")]
    /\ stops = [n \in Spawned |-> << >>]

\* Outcomes of child.kill(sig): the signal is delivered (returns true), the
\* process is already gone (returns false), the call throws, or the failure
\* is reported through an 'error' event (and kill returns false).
KillOutcomes(c) ==
    IF c.alive = "running" THEN {"delivered", "false", "throws", "errorEvent"}
    ELSE {"false"}

\* child.kill(sig): child.killed becomes true once any signal was delivered.
ChildKill(c, sig, outcome) ==
    IF outcome = "delivered"
    THEN IF sig = "SIGKILL"
         THEN [c EXCEPT !.killed = TRUE, !.sigkill = @ + 1]
         ELSE [c EXCEPT !.killed = TRUE, !.graceful = @ + 1]
    ELSE c

\* The closure state of one stop() call.
NewStopCall(afterPrev, exited) ==
    [phase      |-> "pending",   \* "pending" | "resolved" | "rejected"
     isResolved |-> FALSE,
     wasKilled  |-> FALSE,
     timeout    |-> FALSE,       \* the SIGKILL timer is armed
     timerFired |-> FALSE,
     listening  |-> FALSE,       \* once('close') / once('error') registered
     timedOut   |-> FALSE,       \* the resolved value
     killed     |-> FALSE,
     immediate  |-> FALSE,       \* returned by the already-exited shortcut
     sentSignal |-> FALSE,       \* this call delivered the graceful signal
     sentKill   |-> FALSE,       \* this call delivered SIGKILL
     runningAtTimeout |-> FALSE, \* the process had not exited when the timer fired
     killThrew  |-> FALSE,       \* child.kill threw inside this call
     afterPrev  |-> afterPrev,   \* every earlier call had resolved when this one was made
     exitedAtCall |-> exited]    \* the process had exited when this call was made

\* resolveOnce(timedOut)
resolveOnce(call, timedOut) ==
    IF call.isResolved \/ call.phase # "pending" THEN call
    ELSE [call EXCEPT !.isResolved = TRUE, !.timeout = FALSE, !.phase = "resolved",
                      !.timedOut = timedOut, !.killed = call.wasKilled]

\* The value returned when the process has already exited.
AlreadyExitedResult_ReportsKilledFlag(c, call) ==
    [call EXCEPT !.phase = "resolved", !.immediate = TRUE,
                 !.timedOut = FALSE, !.killed = c.killed]

AlreadyExitedResult(c, call) ==
    [call EXCEPT !.phase = "resolved", !.immediate = TRUE,
                 !.timedOut = FALSE, !.killed = FALSE]

\* An 'error' or 'close' event reaches the once-listeners of every call.
EmitToListeners(calls) ==
    [k \in DOMAIN calls |->
        IF calls[k].listening THEN resolveOnce(calls[k], FALSE) ELSE calls[k]]

\* What a throw of child.kill(signal) does to the call: it is caught and the
\* call resolves.
GracefulKillThrew_Uncaught(call) ==
    [call EXCEPT !.phase = "rejected", !.timeout = FALSE, !.killThrew = TRUE]

GracefulKillThrew(call) ==
    resolveOnce([call EXCEPT !.killThrew = TRUE], FALSE)

\* stop(signal, opts) on handle n with the given outcome of child.kill(signal):
\* the new values of <<child[n], stops[n]>>.
stopBody(c, calls, outcome) ==
    LET afterPrev == \A k \in DOMAIN calls : calls[k].phase # "pending"
        fresh == NewStopCall(afterPrev, c.exitCode \/ c.signalCode)
    IN
    IF c.exitCode \/ c.signalCode
    THEN <<c, Append(calls, AlreadyExitedResult(c, fresh))>>
    ELSE
      LET armed == [fresh EXCEPT !.timeout = TRUE, !.listening = TRUE]
          all0 == Append(calls, armed)
          me == Len(all0)
      IN
      IF c.exitCode
      THEN <<c, [all0 EXCEPT ![me] = resolveOnce(@, FALSE)]>>
      ELSE
        LET c1 == ChildKill(c, "graceful", outcome) IN
        CASE outcome = "delivered" ->
               <<c1, [all0 EXCEPT ![me].sentSignal = TRUE]>>
          [] outcome = "false" ->
               <<c1, [all0 EXCEPT ![me] = resolveOnce(@, FALSE)]>>
          [] outcome = "throws" ->
               <<c1, [all0 EXCEPT ![me] = GracefulKillThrew(@)]>>
          [] outcome = "errorEvent" ->
               <<c1, EmitToListeners(all0)>>

\* stop() with the bookkeeping of whether the returned promise was already
\* settled when stop() returned.
stop(c, calls, outcome) ==
    LET r == stopBody(c, calls, outcome)
        me == Len(r[2])
    IN <<r[1], [r[2] EXCEPT ![me].immediate = (r[2][me].phase # "pending")]>>

\* The setTimeout callback of call k.
onTimeout(c, calls0, k, outcome) ==
    LET calls == [calls0 EXCEPT ![k].timerFired = TRUE, ![k].timeout = FALSE,
                                ![k].runningAtTimeout = ~(c.exitCode \/ c.signalCode)]
    IN
    IF ~c.exitCode /\ ~c.killed
    THEN LET c1 == ChildKill(c, "SIGKILL", outcome)
             afterEvent == IF outcome = "errorEvent" THEN EmitToListeners(calls) ELSE calls
             marked == IF outcome = "throws" THEN afterEvent
                       ELSE [afterEvent EXCEPT ![k].wasKilled = TRUE,
                                               ![k].sentKill = (outcome = "delivered")]
         IN <<c1, [marked EXCEPT ![k] = resolveOnce(@, TRUE)]>>
    ELSE <<c, [calls EXCEPT ![k] = resolveOnce(@, TRUE)]>>

\* handle.close() called directly on handle n.
HandleClose(n) ==
    /\ Len(stops[n]) < MaxStopCalls
    /\ \E o \in KillOutcomes(child[n]) :
         LET r == stop(child[n], stops[n], o) IN
         /\ child' = [child EXCEPT ![n] = r[1]]
         /\ stops' = [stops EXCEPT ![n] = r[2]]

\* The SIGKILL timer of a pending call expires.
TimerFire(n) ==
    \E k \in DOMAIN stops[n] :
      /\ stops[n][k].timeout
      /\ \E o \in KillOutcomes(child[n]) :
           LET r == onTimeout(child[n], stops[n], k, o) IN
           /\ child' = [child EXCEPT ![n] = r[1]]
           /\ stops' = [stops EXCEPT ![n] = r[2]]

\* The process exits, by itself or because of a signal: exitCode or
\* signalCode is set and the 'exit' event is emitted.
ProcExit(n) ==
    /\ child[n].alive = "running"
    /\ \E bySignal \in BOOLEAN :
         child' = [child EXCEPT ![n].alive = "gone",
                                ![n].exitCode = ~bySignal,
                                ![n].signalCode = bySignal]
    /\ UNCHANGED stops

\* The 'close' event: the process has exited and its stdio streams closed.
\* Every 'close' listener on the process runs (existing-process-transport.ts
\* lines 48-50), those of transports closed earlier included.
ProcCloseEvent(n) ==
    /\ child[n].alive = "gone"
    /\ ~child[n].closeEmitted
    /\ child' = [child EXCEPT ![n].closeEmitted = TRUE,
                              ![n].late = @ + (child[n].listeners.process \div 2)
                                            - child[n].transports]
    /\ stops' = [stops EXCEPT ![n] = EmitToListeners(@)]

\* A failed spawn reports itself on the next tick: exitCode is set to the
\* (negative) error number and 'error' is emitted.
ProcSpawnError(n) ==
    /\ child[n].alive = "spawnFailing"
    /\ child' = [child EXCEPT ![n].alive = "gone", ![n].exitCode = TRUE]
    /\ stops' = [stops EXCEPT ![n] = EmitToListeners(@)]

(***************************************************************************)
(* src/connection/connect-client.ts and src/spawn/spawn-servers.ts :       *)
(* inferTransportType                                                      *)
(***************************************************************************)

\* Values of entry.type: absent, the TransportType union, and a string
\* outside the union (an unvalidated configuration object).
TypeValues == {"none", "stdio", "http", "sse-ide", "ws-ide", "sdk", "grpc"}

\* Values of entry.url; "" stands for an absent (falsy) url.
UrlValues == {"", "http://h/mcp", "https://h/mcp", "ws://h/mcp", "file:///h/x", "h/mcp"}

\* new URL(u).protocol; "TypeError" when new URL(u) throws.
UrlProtocol(u) ==
    CASE u = "http://h/mcp"  -> "http:"
      [] u = "https://h/mcp" -> "https:"
      [] u = "ws://h/mcp"    -> "ws:"
      [] u = "file:///h/x"   -> "file:"
      [] OTHER               -> "TypeError"

IsError(r) == r \notin {"stdio", "http", "sse-ide", "ws-ide", "sdk", "grpc"}

\* connect-client.ts inferTransportType, with the url consulted before the
\* explicit type.
inferTransportType_UrlFirst(config) ==
    IF config.url # "" /\ UrlProtocol(config.url) \in {"http:", "https:"}
    THEN "http"
    ELSE IF config.type # "none"
    THEN IF config.type \in {"http", "sse-ide"} THEN "http"
         ELSE IF config.type = "stdio" THEN "stdio"
         ELSE "Unsupported transport type"
    ELSE IF config.url # ""
    THEN IF UrlProtocol(config.url) = "TypeError" THEN "TypeError"
         ELSE "Unsupported URL protocol"
    ELSE "stdio"

\* connect-client.ts inferTransportType: the transport, or the error thrown.
inferTransportType(config) ==
    IF config.type # "none"
    THEN LET protocol == UrlProtocol(config.url) IN
         IF config.url # "" /\ protocol = "TypeError"
         THEN "TypeError"
         ELSE IF /\ config.url # ""
                 /\ protocol \in {"http:", "https:"}
                 /\ config.type # "http" /\ config.type # "sse-ide"
         THEN "Conflicting transport"
         ELSE IF config.type = "http" \/ config.type = "sse-ide" THEN "http"
         ELSE IF config.type = "stdio" THEN "stdio"
         ELSE "Unsupported transport type"
    ELSE IF config.url # ""
    THEN LET protocol == UrlProtocol(config.url) IN
         IF protocol = "TypeError" THEN "TypeError"
         ELSE IF protocol = "http:" \/ protocol = "https:" THEN "http"
         ELSE "Unsupported URL protocol"
    ELSE "stdio"

\* spawn-servers.ts inferTransportType: no validation, the type is returned
\* as written.
registryInferTransportType(config) ==
    IF config.type # "none" THEN config.type
    ELSE IF config.url # ""
    THEN LET protocol == UrlProtocol(config.url) IN
         IF protocol = "TypeError" THEN "TypeError"
         ELSE IF protocol = "http:" \/ protocol = "https:" THEN "http"
         ELSE "stdio"
    ELSE "stdio"

\* connectMcpClient up to the construction of its first transport: the
\* inferred transport and the transport it starts, or the error it throws.
\* hasHandle: the registry holds a spawned process for the name.
connectMcpClientStart(config, hasHandle) ==
    LET transportType == inferTransportType(config) IN
    IF IsError(transportType)
    THEN [inferred |-> transportType, attempt |-> "none", error |-> transportType]
    ELSE IF transportType = "stdio"
    THEN IF hasHandle
         THEN [inferred |-> "stdio", attempt |-> "ExistingProcessTransport", error |-> "none"]
         ELSE IF ~config.command
         THEN [inferred |-> "stdio", attempt |-> "none", error |-> "missing command"]
         ELSE [inferred |-> "stdio", attempt |-> "StdioClientTransport", error |-> "none"]
    ELSE IF config.url = ""
         THEN [inferred |-> "http", attempt |-> "none", error |-> "missing url"]
         ELSE [inferred |-> "http", attempt |-> "StreamableHTTPClientTransport", error |-> "none"]

\* registry.connect(name): the registry infers the transport to choose
\* between the shared stdio lease path and an independent connection.
RegistryRoute ==
    /\ neg.pc = "config"
    /\ LET transportType == registryInferTransportType(cfg) IN
       neg' = [neg EXCEPT !.viaRegistry = TRUE,
                          !.registryType = transportType,
                          !.pc = IF transportType = "TypeError" THEN "done" ELSE "routed",
                          !.error = IF transportType = "TypeError" THEN "TypeError" ELSE "none",
                          !.route = IF transportType = "TypeError" THEN "none"
                                    ELSE IF transportType = "stdio" THEN "lease"
                                    ELSE "independent"]
    /\ UNCHANGED <<cfg, procVars, regVars, authVars, extVars>>

\* The connectMcpClient call made by registry.connect on either route.
RegistryConnectMcpClient ==
    /\ neg.pc = "routed"
    /\ LET r == connectMcpClientStart(cfg, cfg.spawned) IN
       neg' = [neg EXCEPT !.pc = "done", !.inferred = r.inferred,
                          !.attempt = r.attempt, !.error = r.error]
    /\ UNCHANGED <<cfg, procVars, regVars, authVars, extVars>>

\* connectMcpClient called with a plain configuration object (no registry).
PlainConnectMcpClient ==
    /\ neg.pc = "config"
    /\ LET r == connectMcpClientStart(cfg, FALSE) IN
       neg' = [neg EXCEPT !.pc = "done", !.inferred = r.inferred,
                          !.attempt = r.attempt, !.error = r.error]
    /\ UNCHANGED <<cfg, procVars, regVars, authVars, extVars>>

InitInfer ==
    /\ cfg \in [type : TypeValues, url : UrlValues, command : BOOLEAN, spawned : BOOLEAN]
    /\ neg = NoNegotiation
    /\ ProcIdle
    /\ RegIdle
    /\ AuthIdle
    /\ ExtIdle

NextInfer ==
    \/ RegistryRoute
    \/ RegistryConnectMcpClient
    \/ PlainConnectMcpClient

SpecInfer == InitInfer /\ [][NextInfer]_vars

Normalised(t) == IF t = "sse-ide" THEN "http" ELSE t

\* C9: whenever inference yields a transport it follows the precedence
\* explicit type (http and sse-ide normalised to http), then URL protocol,
\* then stdio; an entry with only an http(s) url infers http, one with
\* neither url nor type infers stdio, and the registry's own inference
\* agrees with the negotiator's up to normalisation.
C9_InferencePrecedence ==
    neg.pc = "done" /\ neg.inferred # "none" =>
      /\ (~IsError(neg.inferred) /\ cfg.type # "none")
            => neg.inferred = Normalised(cfg.type)
      /\ (cfg.type \in {"stdio", "http", "sse-ide"} /\ cfg.url = "")
            => neg.inferred = Normalised(cfg.type)
      /\ (cfg.type = "none" /\ cfg.url \in {"http://h/mcp", "https://h/mcp"})
            => neg.inferred = "http"
      /\ (cfg.type = "none" /\ cfg.url = "") => neg.inferred = "stdio"
      /\ (~IsError(neg.inferred) /\ neg.viaRegistry)
            => Normalised(neg.registryType) = neg.inferred

\* An entry with an explicit type and an http(s) url of the same transport
\* has been negotiated through the registry.
C9_Witness ==
    /\ neg.pc = "done" /\ neg.viaRegistry
    /\ cfg.type = "sse-ide" /\ cfg.url = "https://h/mcp"
    /\ neg.inferred = "http"

\* The entry's type and url do not fit: an unrecognised type, an
\* unrecognised url protocol, or a type whose transport differs from the
\* one the url's protocol stands for.
Misconfigured(config) ==
    \/ config.type \notin {"none", "stdio", "http", "sse-ide"}
    \/ config.url # "" /\ UrlProtocol(config.url) \notin {"http:", "https:"}
    \/ /\ config.type # "none" /\ config.url # ""
       /\ UrlProtocol(config.url) \in {"http:", "https:"}
       /\ Normalised(config.type) # "http"

\* C10: connect rejects a misconfigured entry with a configuration error
\* and starts no transport for it.
C10_MisconfiguredRejected ==
    (neg.pc = "done" /\ Misconfigured(cfg)) =>
        /\ neg.attempt = "none"
        /\ neg.error \in {"Conflicting transport", "Unsupported transport type",
                          "Unsupported URL protocol", "TypeError"}

(***************************************************************************)
(* Specification of one process handle                                     *)
(***************************************************************************)
InitProc ==
    /\ \E alive \in {"running", "spawnFailing"} :
         child = [n \in Spawned |-> IF n = Solo THEN SpawnedChild(alive) ELSE SpawnedChild("running")]
    /\ stops = [n \in Spawned |-> << >>]
    /\ NegIdle
    /\ RegIdle
    /\ AuthIdle
    /\ ExtIdle

SoloClose == HandleClose(Solo) /\ UNCHANGED <<negVars, regVars, authVars, extVars>>
SoloTimerFire == TimerFire(Solo) /\ UNCHANGED <<negVars, regVars, authVars, extVars>>
SoloExit == ProcExit(Solo) /\ UNCHANGED <<negVars, regVars, authVars, extVars>>
SoloCloseEvent == ProcCloseEvent(Solo) /\ UNCHANGED <<negVars, regVars, authVars, extVars>>
SoloSpawnError == ProcSpawnError(Solo) /\ UNCHANGED <<negVars, regVars, authVars, extVars>>

NextProc ==
    \/ SoloClose
    \/ SoloTimerFire
    \/ SoloExit
    \/ SoloCloseEvent
    \/ SoloSpawnError

SpecProc == InitProc /\ [][NextProc]_vars

\* C5: when the timer of a close() call expires on a process that took the
\* graceful signal and has not exited, SIGKILL is sent and the call resolves
\* with {timedOut: true, killed: true}.
C5_ForcedKillOnTimeout ==
    \A k \in DOMAIN stops[Solo] :
      LET call == stops[Solo][k] IN
      (call.sentSignal /\ call.timerFired /\ call.runningAtTimeout)
        => /\ call.phase = "resolved"
           /\ call.timedOut
           /\ call.killed
           /\ child[Solo].sigkill > 0

\* C6 as stated: a second close(), made after the first resolved, returns
\* {timedOut: false, killed: false} at once and sends no signal, whatever
\* the first call's outcome was; and no call ever throws.
C6_SecondCloseAlwaysImmediate ==
    \A k \in DOMAIN stops[Solo] :
      LET call == stops[Solo][k] IN
      /\ call.phase # "rejected"
      /\ (k > 1 /\ call.afterPrev)
           => /\ call.immediate
              /\ ~call.timedOut /\ ~call.killed
              /\ ~call.sentSignal /\ ~call.sentKill

\* C6 amended: no close() call throws, and a later close() made after the
\* earlier ones resolved and after the process has exited returns
\* {timedOut: false, killed: false} at once and sends no signal.
C6_SecondCloseAfterExit ==
    \A k \in DOMAIN stops[Solo] :
      LET call == stops[Solo][k] IN
      /\ call.phase # "rejected"
      /\ (k > 1 /\ call.afterPrev /\ call.exitedAtCall)
           => /\ call.immediate
              /\ call.phase = "resolved"
              /\ ~call.timedOut /\ ~call.killed
              /\ ~call.sentSignal /\ ~call.sentKill

\* A second close() after a first one that delivered its signal and saw the
\* process exit.
C6_Witness ==
    /\ Len(stops[Solo]) >= 2
    /\ stops[Solo][1].sentSignal
    /\ stops[Solo][1].phase = "resolved"
    /\ stops[Solo][2].afterPrev /\ stops[Solo][2].exitedAtCall
    /\ stops[Solo][2].phase = "resolved"

\* C7: a close() call never rejects; while it is pending its timer is armed,
\* and once the timer has fired the call is resolved.
C7_CloseAlwaysResolves ==
    \A k \in DOMAIN stops[Solo] :
      LET call == stops[Solo][k] IN
      /\ call.phase # "rejected"
      /\ (call.phase = "pending" => call.timeout)
      /\ (call.timerFired => call.phase = "resolved")

\* child.kill threw in one call and the timer of another call fired on a
\* process that ignored the signal: both calls are resolved.
C7_Witness ==
    /\ \E k \in DOMAIN stops[Solo] :
         stops[Solo][k].killThrew /\ stops[Solo][k].phase = "resolved"
    /\ \E k \in DOMAIN stops[Solo] :
         /\ stops[Solo][k].timerFired /\ stops[Solo][k].runningAtTimeout
         /\ stops[Solo][k].phase = "resolved"

(***************************************************************************)
(* src/spawn/spawn-servers.ts : createServerRegistry (connect, close)      *)
(* Every name of the configuration is a stdio entry whose process was      *)
(* spawned at construction.                                                *)
(***************************************************************************)

\* The mutable state of the registry closure as one value.
Registry ==
    [shared |-> sharedStdioClients, entry |-> entry, lease |-> lease, clients |-> clients]

\* entry.client is set.
HasClient(e) == e.status \in {"connected", "closing", "closed", "closeFailed"}

\* entry.connecting is set (a pending or a rejected promise).
HasConnecting(e) == e.status \in {"connecting", "failed"}

RemoveFrom(seq, x) == SelectSeq(seq, LAMBDA y : y # x)

\* Lines 401-429: count the reference, build the lease proxy, track it.
handLease(R, l) ==
    LET e == R.lease[l].entry IN
    [R EXCEPT !.entry[e].refs = @ + 1,
              !.lease[l].state = "held",
              !.clients = Append(@, l)]

\* Lines 362-366: the name is not a key of serversConfig; the call throws.
rejectUnknown_Tracked(R, n, l) ==
    [R EXCEPT !.lease[l] = [NoLease EXCEPT !.name = n, !.state = "notFound",
                                           !.available = Names \cup HttpNames],
              !.clients = Append(@, l)]

rejectUnknown(R, n, l) ==
    [R EXCEPT !.lease[l] = [NoLease EXCEPT !.name = n, !.state = "notFound",
                                           !.available = Names \cup HttpNames]]

\* Lines 432-434: a non-stdio entry; the call awaits connectMcpClient.
connectDirect(R, n, l) ==
    [R EXCEPT !.lease[l] = [NoLease EXCEPT !.name = n, !.state = "waiting"]]

\* Lines 370-395: a stdio entry, up to the first suspension of the call.
connectShared(R, n, l) ==
    LET existing == R.shared[n]
        e  == IF existing = 0 THEN l ELSE existing
        R1 == IF existing = 0
              THEN [R EXCEPT !.shared[n] = l,
                             !.entry[l] = [NoEntry EXCEPT !.name = n, !.status = "fresh"]]
              ELSE R
        R2 == [R1 EXCEPT !.lease[l] =
                 [NoLease EXCEPT !.name = n, !.entry = e,
                                 !.overlaps = {k \in Ids :
                                      /\ R.lease[k].name = n
                                      /\ R.lease[k].state = "waiting"
                                      /\ R.entry[R.lease[k].entry].status # "failed"}]]
    IN
    IF ~HasClient(R2.entry[e])
    THEN LET R3 == IF ~HasConnecting(R2.entry[e])
                   THEN [R2 EXCEPT !.entry[e].status = "connecting",
                                   !.entry[e].attempts = @ + 1]
                   ELSE R2
         IN [R3 EXCEPT !.entry[e].waiters = Append(@, l),
                       !.lease[l].state = "waiting"]
    ELSE handLease(R2, l)

\* Lines 361-395: registry.connect(name) up to its first suspension.
connect(R, n, l) ==
    IF n \notin Names \cup HttpNames THEN rejectUnknown(R, n, l)
    ELSE IF n \in HttpNames THEN connectDirect(R, n, l)
    ELSE connectShared(R, n, l)

\* target.close() called by lease l on the client of entry e.
targetClose(R, e, l) ==
    LET R1 == [R EXCEPT !.entry[e].closes = @ + 1, !.lease[l].toreDown = TRUE] IN
    IF R.entry[e].status \in {"closed", "closeFailed"}
    THEN [R1 EXCEPT !.lease[l].closeState = "fulfilled"]
    ELSE [R1 EXCEPT !.entry[e].status = "closing",
                    !.entry[e].closers = @ \cup {l},
                    !.lease[l].closeState = "pending"]

\* close() of a client returned for a non-stdio entry: the SDK client's own
\* close(); the registry is not involved.
directClose(R, l) ==
    [R EXCEPT !.lease[l].state = "released", !.lease[l].closeState = "pending"]

\* Lines 408-417: the close() of a lease proxy, up to its first suspension.
leaseClose(R, l) ==
    IF R.lease[l].name \in HttpNames
    THEN directClose(R, l)
    ELSE IF R.lease[l].state = "released"
    THEN R
    ELSE LET e  == R.lease[l].entry
             n  == R.lease[l].name
             left == IF R.entry[e].refs - 1 > 0 THEN R.entry[e].refs - 1 ELSE 0
             R1 == [R EXCEPT !.lease[l].state = "released",
                             !.clients = RemoveFrom(@, l),
                             !.entry[e].refs = left]
         IN IF left = 0
            THEN targetClose([R1 EXCEPT !.shared[n] = 0], e, l)
            ELSE [R1 EXCEPT !.lease[l].closeState = "fulfilled"]

\* The continuation of `await entry.connecting` of every waiting call, in
\* the order in which the calls suspended.
RECURSIVE resumeAll(_, _, _)
resumeAll(R, e, waiting) ==
    IF waiting = << >> THEN R
    ELSE LET l == Head(waiting)
             R1 == IF HasClient(R.entry[e])
                   THEN handLease(R, l)
                   ELSE [R EXCEPT !.lease[l].state = "rejected"]
         IN resumeAll(R1, e, Tail(waiting))

\* Lines 445-451: client.close() is called on every tracked client in turn.
RECURSIVE closeAll(_, _)
closeAll(R, tracked) ==
    IF tracked = << >> THEN R
    ELSE closeAll(leaseClose(R, Head(tracked)), Tail(tracked))

\* Lines 446-450: what Promise.all sees of one client's close().
clientClosePromise_NoCatch(closeState) == closeState

clientClosePromise(closeState) ==
    IF closeState = "rejected" THEN "fulfilled" ELSE closeState

\* Line 452: the await of Promise.all(clientClosePromises) may continue.
clientClosesSettled_NoAwait(snapshot, ls) == TRUE

clientClosesSettled(snapshot, ls) ==
    \A i \in DOMAIN snapshot : clientClosePromise(ls[snapshot[i]].closeState) = "fulfilled"

\* ExistingProcessTransport.start (existing-process-transport.ts lines
\* 40-71): the transport listens to the stdout of the process.
existingProcessTransportStart(c) ==
    [c EXCEPT !.listeners = [process |-> @.process + 2,   \* 'error', 'close'
                             stdout  |-> @.stdout + 2,    \* 'data', 'error'
                             stdin   |-> @.stdin + 1],    \* 'error'
              !.transports = @ + 1]

\* The transport's close() sending the process a signal as well.
existingProcessTransportClose_KillsProcess(c) ==
    IF c.transports = 0 THEN c
    ELSE ChildKill([c EXCEPT !.listeners = [@ EXCEPT !.stdout = @ - 2, !.stdin = @ - 1],
                             !.transports = @ - 1],
                   "SIGTERM", "delivered")

\* ExistingProcessTransport.close (lines 94-107): the listeners are taken
\* off the streams of the process and the buffer is cleared; the process
\* itself is left alone.
existingProcessTransportClose(c) ==
    IF c.transports = 0 THEN c
    ELSE [c EXCEPT !.listeners = [@ EXCEPT !.stdout = @ - 2, !.stdin = @ - 1],
                   !.transports = @ - 1]

RECURSIVE startTransports(_, _)
startTransports(c, k) ==
    IF k = 0 THEN c ELSE startTransports(existingProcessTransportStart(c), k - 1)

RECURSIVE closeTransports(_, _)
closeTransports(c, k) ==
    IF k = 0 THEN c ELSE closeTransports(existingProcessTransportClose(c), k - 1)

\* The processes after a step that takes the registry from R to R2: every
\* connection attempt begun for a spawned name has started a transport on
\* its process (connect-client.ts lines 175-180), and every shared client
\* closed for the first time has closed its transport.
processesAfter(R, R2) ==
    [n \in Spawned |->
        LET started == {e \in Ids : /\ R2.entry[e].name = n
                                    /\ R2.entry[e].attempts > R.entry[e].attempts}
            closed  == {e \in Ids : /\ R2.entry[e].name = n
                                    /\ R.entry[e].closes = 0
                                    /\ R2.entry[e].closes > 0}
        IN closeTransports(startTransports(child[n], Cardinality(started)),
                           Cardinality(closed))]

SetRegistry(R) ==
    /\ sharedStdioClients' = R.shared
    /\ entry' = R.entry
    /\ lease' = R.lease
    /\ clients' = R.clients

\* registry.connect(n) is called (at most max calls are made).
Connect(n, max) ==
    /\ connects < max /\ connects < MaxConnects
    /\ reg.phase # "closed"
    /\ connects' = connects + 1
    /\ SetRegistry(connect(Registry, n, connects + 1))
    /\ child' = processesAfter(Registry, connect(Registry, n, connects + 1))
    /\ UNCHANGED <<reg, stops, negVars, authVars, extVars>>

\* connectMcpClient resolves: lines 384-387 set entry.client.
ConnectSucceeds(e) ==
    /\ entry[e].status = "connecting"
    /\ entry' = [entry EXCEPT ![e].status = "connected"]
    /\ UNCHANGED <<sharedStdioClients, lease, clients, connects, reg, procVars, negVars, authVars, extVars>>

\* The rejection is passed on with the entry left in sharedStdioClients.
connectingRejected_EntryKept(R, e) ==
    [R EXCEPT !.entry[e].status = "failed"]

\* Lines 388-391: the catch on entry.connecting deletes the name from
\* sharedStdioClients and rethrows.
connectingRejected(R, e) ==
    [R EXCEPT !.entry[e].status = "failed", !.shared[R.entry[e].name] = 0]

\* connectMcpClient rejects: lines 388-391 drop the bookkeeping of the name.
ConnectFails(e) ==
    /\ entry[e].status = "connecting"
    /\ SetRegistry(connectingRejected(Registry, e))
    /\ UNCHANGED <<connects, reg, procVars, negVars, authVars, extVars>>

\* The calls suspended at line 394 continue, after entry.connecting settled.
ResumeWaiters(e) ==
    /\ entry[e].status \notin {"none", "fresh", "connecting"}
    /\ entry[e].waiters # << >>
    /\ SetRegistry([resumeAll(Registry, e, entry[e].waiters) EXCEPT !.entry[e].waiters = << >>])
    /\ UNCHANGED <<connects, reg, procVars, negVars, authVars, extVars>>

\* The holder of lease l calls lease.close(); the close() of a stdio lease
\* may be called again after it was released.
LeaseClose(l) ==
    /\ \/ lease[l].state = "held"
       \/ lease[l].state = "released" /\ lease[l].name \in Names
    /\ SetRegistry(leaseClose(Registry, l))
    /\ child' = processesAfter(Registry, leaseClose(Registry, l))
    /\ UNCHANGED <<connects, reg, stops, negVars, authVars, extVars>>

\* Lines 434-437: connectMcpClient settles for the non-stdio call l; on
\* success the decorated client is tracked and returned.
DirectConnectSettles(l) ==
    /\ lease[l].state = "waiting" /\ lease[l].name \in HttpNames
    /\ \E ok \in BOOLEAN :
         IF ok
         THEN /\ lease' = [lease EXCEPT ![l].state = "held"]
              /\ clients' = Append(clients, l)
         ELSE /\ lease' = [lease EXCEPT ![l].state = "rejected"]
              /\ UNCHANGED clients
    /\ UNCHANGED <<sharedStdioClients, entry, connects, reg, procVars, negVars, authVars, extVars>>

\* The close() of a client of a non-stdio entry settles.
DirectCloseSettles(l) ==
    /\ lease[l].name \in HttpNames /\ lease[l].closeState = "pending"
    /\ \E ok \in BOOLEAN :
         lease' = [lease EXCEPT ![l].closeState = IF ok THEN "fulfilled" ELSE "rejected"]
    /\ UNCHANGED <<sharedStdioClients, entry, clients, connects, reg, procVars, negVars, authVars, extVars>>

\* The close() of the shared client of entry e settles.
ClientCloseSettles(e) ==
    /\ entry[e].status = "closing"
    /\ \E ok \in BOOLEAN :
         /\ entry' = [entry EXCEPT ![e].status = IF ok THEN "closed" ELSE "closeFailed",
                                   ![e].closers = {}]
         /\ lease' = [l \in Ids |->
                        IF l \in entry[e].closers
                        THEN [lease[l] EXCEPT !.closeState = IF ok THEN "fulfilled" ELSE "rejected"]
                        ELSE lease[l]]
    /\ UNCHANGED <<sharedStdioClients, clients, connects, reg, procVars, negVars, authVars, extVars>>

\* registry.close(signal, opts) is called: lines 441-452 up to the await.
RegistryClose ==
    /\ reg.phase = "open"
    /\ SetRegistry(closeAll(Registry, clients))
    /\ child' = processesAfter(Registry, closeAll(Registry, clients))
    /\ reg' = [reg EXCEPT !.phase = "closingClients", !.snapshot = clients]
    /\ UNCHANGED <<connects, stops, negVars, authVars, extVars>>

\* Lines 452-461: after the client closes, clear the set and close every
\* server process.
RegistryCloseServers ==
    /\ reg.phase = "closingClients"
    /\ LET rejected == \E i \in DOMAIN reg.snapshot :
                          clientClosePromise(lease[reg.snapshot[i]].closeState) = "rejected"
       IN
       IF rejected
       THEN /\ reg' = [reg EXCEPT !.phase = "rejected"]
            /\ UNCHANGED <<clients, child, stops>>
       ELSE /\ clientClosesSettled(reg.snapshot, lease)
            /\ clients' = << >>
            /\ reg' = [reg EXCEPT !.phase = "closingServers"]
            /\ \E o \in [Spawned -> {"delivered", "false", "throws", "errorEvent"}] :
                 /\ \A n \in Spawned : o[n] \in KillOutcomes(child[n])
                 /\ child' = [n \in Spawned |-> stop(child[n], stops[n], o[n])[1]]
                 /\ stops' = [n \in Spawned |-> stop(child[n], stops[n], o[n])[2]]
    /\ UNCHANGED <<sharedStdioClients, entry, lease, connects, negVars, authVars, extVars>>

\* Lines 461-467: every server.close() has resolved; the result is built.
RegistryCloseDone ==
    /\ reg.phase = "closingServers"
    /\ \A n \in Spawned : stops[n][Len(stops[n])].phase = "resolved"
    /\ reg' = [reg EXCEPT !.phase = "closed",
                          !.timedOut = \E n \in Spawned : stops[n][Len(stops[n])].timedOut,
                          !.killedCount = Cardinality({n \in Spawned : stops[n][Len(stops[n])].killed})]
    /\ UNCHANGED <<sharedStdioClients, entry, lease, clients, connects, procVars, negVars, authVars, extVars>>

\* The spawned processes: timers of their close() connects, exits after a
\* signal, 'close' events.
ServerTimerFire(n) == TimerFire(n) /\ UNCHANGED <<regVars, negVars, authVars, extVars>>
ServerExit(n) == child[n].killed /\ ProcExit(n) /\ UNCHANGED <<regVars, negVars, authVars, extVars>>
ServerCloseEvent(n) == ProcCloseEvent(n) /\ UNCHANGED <<regVars, negVars, authVars, extVars>>

InitRegistry ==
    /\ RegIdle
    /\ ProcIdle
    /\ NegIdle
    /\ AuthIdle
    /\ ExtIdle

\* The lease protocol alone: connect calls, their settlement, lease closes.
NextLeases ==
    \/ \E n \in Names : Connect(n, MaxConnects)
    \/ \E e \in Ids : ConnectSucceeds(e)
    \/ \E e \in Ids : ConnectFails(e)
    \/ \E e \in Ids : ResumeWaiters(e)
    \/ \E l \in Ids : LeaseClose(l)
    \/ \E e \in Ids : ClientCloseSettles(e)

SpecLeases == InitRegistry /\ [][NextLeases]_vars

\* The client set of the registry: connect calls for a stdio name, an http
\* name and a name that is not configured, and the closes of what they return.
NextClients ==
    \/ \E n \in {"a"} \cup HttpNames \cup UnknownNames : Connect(n, MaxTracked)
    \/ \E e \in Ids : ConnectSucceeds(e)
    \/ \E e \in Ids : ConnectFails(e)
    \/ \E e \in Ids : ResumeWaiters(e)
    \/ \E l \in Ids : DirectConnectSettles(l)
    \/ \E l \in Ids : LeaseClose(l)
    \/ \E e \in Ids : ClientCloseSettles(e)
    \/ \E l \in Ids : DirectCloseSettles(l)

SpecClients == InitRegistry /\ [][NextClients]_vars

\* The registry with its shutdown.
NextRegistry ==
    \/ \E n \in Names : Connect(n, MaxTracked)
    \/ \E e \in Ids : ConnectSucceeds(e)
    \/ \E e \in Ids : ConnectFails(e)
    \/ \E e \in Ids : ResumeWaiters(e)
    \/ \E l \in Ids : LeaseClose(l)
    \/ \E e \in Ids : ClientCloseSettles(e)
    \/ RegistryClose
    \/ RegistryCloseServers
    \/ RegistryCloseDone
    \/ \E n \in Spawned : ServerTimerFire(n)
    \/ \E n \in Spawned : ServerExit(n)
    \/ \E n \in Spawned : ServerCloseEvent(n)

SpecRegistry == InitRegistry /\ [][NextRegistry]_vars

\* C1: connect calls for one name made before an earlier one of them has
\* completed share a single connection attempt: no entry sees a second
\* connectMcpClient call, and each such call is served by the entry (hence
\* the client) of the earlier call.
C1_SingleAttempt ==
    /\ \A e \in Ids : entry[e].attempts <= 1
    /\ \A l \in Ids : \A k \in lease[l].overlaps : lease[l].entry = lease[k].entry

\* The leases handed out on the client of entry e, and those not yet closed.
HandedOut(e) == {l \in Ids : lease[l].entry = e /\ lease[l].state \in {"held", "released"}}
Held(e) == {l \in Ids : lease[l].entry = e /\ lease[l].state = "held"}

\* C2: the shared client's close() is called once, by the close of the last
\* lease: never while a lease on it is still held (a held lease is on a
\* connected client), and exactly once when all handed-out leases are closed.
C2_TeardownOnLastLease ==
    \A e \in Ids :
      /\ entry[e].closes <= 1
      /\ Held(e) # {} => (entry[e].closes = 0 /\ entry[e].status = "connected")
      /\ (HandedOut(e) # {} /\ Held(e) = {}) => entry[e].closes = 1

\* A client is live from the start of its connection attempt until its
\* close() has settled.
Live(e) == entry[e].status \in {"connecting", "connected", "closing"}

\* C3: at most one underlying client per name is connecting or connected,
\* teardown in progress included.
C3_SingleClientPerName ==
    \A n \in Names : Cardinality({e \in Ids : entry[e].name = n /\ Live(e)}) <= 1

\* C4: once registry.close() has called close() on a process handle (and so
\* before any signal is sent), close() has been called on every client that
\* was tracked and each of those calls has settled.
C4_ClientsBeforeSignals ==
    \A n \in Spawned :
      (stops[n] # << >> \/ child[n].killed) =>
        /\ reg.phase \in {"closingServers", "closed"}
        /\ \A i \in DOMAIN reg.snapshot :
             /\ lease[reg.snapshot[i]].state = "released"
             /\ lease[reg.snapshot[i]].closeState \in {"fulfilled", "rejected"}

\* A process has been signalled by a registry.close() that had two tracked
\* clients to close, each tearing down its shared client.
C4_Witness ==
    /\ \E n \in Spawned : child[n].graceful > 0
    /\ Len(reg.snapshot) >= 2
    /\ \A i \in DOMAIN reg.snapshot : lease[reg.snapshot[i]].toreDown

\* C8: registry.close() never rejects; close() has been called on every
\* tracked client as soon as it is in progress, and once the client phase is
\* over close() has been called on every process handle, also when the close
\* of a client rejected.
C8_CloseSwallowsClientErrors ==
    /\ reg.phase # "rejected"
    /\ reg.phase # "open" =>
         \A i \in DOMAIN reg.snapshot : lease[reg.snapshot[i]].state = "released"
    /\ reg.phase \in {"closingServers", "closed"} =>
         \A n \in Spawned : stops[n] # << >>

\* registry.close() has resolved although the close of one tracked client
\* rejected; the other client and the process handle were closed.
C8_Witness ==
    /\ reg.phase = "closed"
    /\ \E i \in DOMAIN reg.snapshot : lease[reg.snapshot[i]].closeState = "rejected"
    /\ \E i \in DOMAIN reg.snapshot :
         lease[reg.snapshot[i]].closeState = "fulfilled" /\ lease[reg.snapshot[i]].toreDown
    /\ \A n \in Spawned : stops[n] # << >> /\ stops[n][1].phase = "resolved"

\* C11: a registry.connect call for a name that is not configured is
\* rejected in the step that makes it, with an error listing exactly the
\* configured names; that step starts no connection attempt, creates no
\* shared entry and leaves registry.clients as it was, and the call is never
\* tracked afterwards.
C11_UnknownNameRejected ==
    [][\A l \in Ids :
         (lease[l].state = "none" /\ lease'[l].name \in UnknownNames) =>
            /\ lease'[l].state = "notFound"
            /\ lease'[l].available = Names \cup HttpNames
            /\ clients' = clients
            /\ entry' = entry
            /\ sharedStdioClients' = sharedStdioClients]_vars

\* An unknown name was rejected while another call's client is tracked.
C11_Witness ==
    \E l \in Ids :
        /\ lease[l].state = "notFound"
        /\ clients # << >>
        /\ l \notin Range(clients)

\* C12: registry.clients holds exactly the clients that connect() returned
\* and that have not been closed since.
C12_ClientsExact ==
    Range(clients) = {l \in Ids : lease[l].state = "held"}

(***************************************************************************)
(* OAuth capability discovery: probeAuthCapabilities and the RFC 9728 /    *)
(* RFC 8414 / RFC 9207 probes it drives. One action per fetch.             *)
(***************************************************************************)

\* Path components of the resource URLs probed on the server's origin.
Paths == {"", "/mcp", "/api/v1/mcp"}

\* The base URLs handed to probeAuthCapabilities.
BaseUrls ==
    {[valid |-> TRUE, path |-> p, suffix |-> x] : p \in Paths, x \in {"", "/"}}
      \cup {[valid |-> FALSE, path |-> "", suffix |-> ""]}

\* normalizeUrl: query, fragment and trailing slashes are dropped.
normalizeUrl(u) == [u EXCEPT !.suffix = ""]

\* getPath: the pathname, empty for "/" and for a string that is not a URL.
getPath(u) == IF u.valid THEN u.path ELSE ""

\* resourceUrl.startsWith(metadata.resource), both on the server's origin.
StartsWith(path, resource) == resource = "" \/ resource = path

\* Protected-resource metadata documents: the resource they describe (by
\* its path on the origin), authorization_servers (absent, [], [""], or a
\* first entry on this origin or on another one) and scopes_supported.
PrmDocs(resources) ==
    {[found |-> TRUE, resource |-> r, as |-> a, scopes |-> FALSE] :
        r \in resources, a \in {"missing", "empty", "blank", "self", "other"}}
      \cup {[found |-> TRUE, resource |-> r, as |-> a, scopes |-> TRUE] :
               r \in resources, a \in {"self", "other"}}

\* Authorization-server metadata documents served by authority a, with or
\* without registration_endpoint.
AsDocs(a) ==
    {[found |-> TRUE, issuer |-> a, reg |-> r, scopes |-> TRUE] : r \in BOOLEAN}

\* What a fetch of a metadata document can come back with.
Responses(docs, none) ==
    {[status |-> x, body |-> none] : x \in {"non2xx", "badjson"}}
      \cup {[status |-> "ok", body |-> d] : d \in docs}

\* The responses a fetch can get: a stable server serves a document or
\* answers 404, and repeats what it answered before; otherwise any response,
\* or a network failure. A fetch of a string that is not a URL always throws.
Answers(known, all, none, valid) ==
    IF ~valid THEN {[status |-> "network", body |-> none]}
    ELSE IF web.stable
         THEN (IF known.status = "unasked"
               THEN {r \in all : r.status # "badjson"}
               ELSE {known})
         ELSE all \cup {[status |-> "network", body |-> none]}

\* The challenge behaviour of the server that answers a request for the
\* resource itself.
ChallengeAnswers(known, valid) ==
    IF ~valid THEN {"network"}
    ELSE IF web.stable /\ known # "unasked" THEN {known}
    ELSE {"none", "resource_metadata", "issuer", "both", "postOnly"}
           \cup (IF web.stable THEN {} ELSE {"network"})

\* The WWW-Authenticate header seen in the answer to GET and to POST.
HeaderOn(method, c) ==
    IF method = "GET"
    THEN (IF c = "postOnly" THEN "none" ELSE c)
    ELSE (IF c = "postOnly" THEN "resource_metadata" ELSE IF c = "network" THEN c ELSE "none")

Remember(known, answer) == IF web.stable THEN answer ELSE known

\* buildCapabilities(metadata, scopes)
buildCapabilities(metadata, scopes) ==
    [supportsDcr |-> metadata.reg,
     registrationEndpoint |-> IF metadata.reg THEN metadata.issuer ELSE "none",
     authorizationEndpoint |-> metadata.issuer,
     scopes |-> IF scopes THEN "resource"
                ELSE IF metadata.scopes THEN metadata.issuer ELSE "none"]

\* probeAuthCapabilities returns caps, built from metadata.
return(p, caps, metadata) ==
    [p EXCEPT !.pc = "done", !.caps = caps, !.metadata = metadata, !.outcome = "resolved"]

\* An exception inside the try block of probeAuthCapabilities.
thrown_Uncaught(p) ==
    [p EXCEPT !.pc = "done", !.outcome = "rejected"]

thrown(p) ==
    [return(p, NoCapabilities, NoAsMetadata) EXCEPT !.caught = TRUE]

\* A failed fetch is noted.
noted(p, status) ==
    IF status \in {"network", "non2xx", "badjson"}
    THEN [p EXCEPT !.failures = @ \cup {status}]
    ELSE p

\* Lines 84-104 of probeAuthCapabilities: discoverProtectedResourceMetadata
\* returned md.
withResourceMetadata_NoFallback(p, md) ==
    LET q == [p EXCEPT !.md = md] IN
    IF ~md.found \/ md.as \in {"empty", "blank"} THEN return(q, NoCapabilities, NoAsMetadata)
    ELSE IF md.as = "missing" THEN thrown(q)
    ELSE [q EXCEPT !.pc = "listedServer", !.target = md.as]

withResourceMetadata(p, md) ==
    LET q == [p EXCEPT !.md = md] IN
    IF ~md.found THEN [q EXCEPT !.pc = "issuer"]
    ELSE IF md.as = "missing" THEN thrown(q)
    ELSE IF md.as = "empty" THEN [q EXCEPT !.pc = "issuer"]
    ELSE IF md.as = "blank" THEN return(q, NoCapabilities, NoAsMetadata)
    ELSE [q EXCEPT !.pc = "listedServer", !.target = md.as]

\* The sub-path location is never probed once the root gave nothing usable.
afterRoot_NoSubPath(p) ==
    withResourceMetadata(p, NoPrm)

\* discoverProtectedResourceMetadata lines 111-135: the root location gave
\* nothing usable.
afterRoot(p) ==
    IF getPath(p.resource) # ""
    THEN [p EXCEPT !.pc = "subPath"]
    ELSE withResourceMetadata(p, NoPrm)

\* The step of the probe is taken; a probe that returned is recorded.
Continue(p) ==
    /\ probe' = p
    /\ runs' = IF p.pc = "done"
               THEN Append(runs, [baseUrl |-> p.baseUrl, caps |-> p.caps,
                                  metadata |-> p.metadata, outcome |-> p.outcome])
               ELSE runs
    /\ UNCHANGED <<procVars, negVars, regVars, tokenVars, extVars>>

\* probeAuthCapabilities(baseUrl) is called (at most max calls are made).
ProbeStart(u, max) ==
    /\ probe.pc \in {"idle", "done"}
    /\ Len(runs) < max /\ Len(runs) < MaxProbes
    /\ Continue([NoProbe EXCEPT !.pc = "headerGet", !.baseUrl = u, !.resource = normalizeUrl(u)])
    /\ UNCHANGED web

\* GET of the resource URL: the first request of
\* discoverProtectedResourceMetadataFromHeader (lines 144-149) and the one
\* of discoverAuthorizationServerIssuer (lines 219-230).
GetResource ==
    /\ probe.pc \in {"headerGet", "issuerRaw", "issuer"}
    /\ \E c \in ChallengeAnswers(web.challenge, probe.resource.valid) :
         /\ web' = [web EXCEPT !.challenge = Remember(@, c)]
         /\ LET header == HeaderOn("GET", c)
                p == IF probe.pc = "headerGet"
                     THEN [noted(probe, c) EXCEPT !.seen.header = header]
                     ELSE noted(probe, c)
                hinted == header \in {"issuer", "both"}
            IN CASE probe.pc = "headerGet" ->
                      Continue(IF header = "none" THEN [p EXCEPT !.pc = "headerPost"]
                               ELSE IF header \in {"resource_metadata", "both"}
                                    THEN [p EXCEPT !.pc = "headerMetadata"]
                               ELSE [p EXCEPT !.pc = "root"])
                 [] probe.pc = "issuerRaw" ->
                      Continue(IF hinted
                               THEN [p EXCEPT !.pc = "issuerServerRaw", !.target = "other"]
                               ELSE [p EXCEPT !.pc = "issuer"])
                 [] probe.pc = "issuer" ->
                      Continue(IF hinted
                               THEN [p EXCEPT !.pc = "issuerServer", !.target = "other"]
                               ELSE [p EXCEPT !.pc = "origin"])

\* The empty-body POST retry of lines 150-157.
PostResource ==
    /\ probe.pc = "headerPost"
    /\ \E c \in ChallengeAnswers(web.challenge, probe.resource.valid) :
         /\ web' = [web EXCEPT !.challenge = Remember(@, c)]
         /\ LET p == [noted(probe, c) EXCEPT !.seen.header = HeaderOn("POST", c)] IN
            Continue(IF HeaderOn("POST", c) = "resource_metadata"
                     THEN [p EXCEPT !.pc = "headerMetadata"]
                     ELSE [p EXCEPT !.pc = "root"])

\* Lines 164-174: the document the challenge's resource_metadata names.
FetchHeaderMetadata ==
    /\ probe.pc = "headerMetadata"
    /\ \E r \in Answers(web.headerPrm, Responses(PrmDocs({""}), NoPrm), NoPrm, TRUE) :
         /\ web' = [web EXCEPT !.headerPrm = Remember(@, r)]
         /\ Continue(IF r.status = "ok"
                     THEN withResourceMetadata(noted(probe, r.status), r.body)
                     ELSE [noted(probe, r.status) EXCEPT !.pc = "root"])

\* Lines 66-113: {origin}/.well-known/oauth-protected-resource.
FetchRootMetadata ==
    /\ probe.pc = "root"
    /\ \E r \in Answers(web.rootPrm, Responses(PrmDocs(Paths), NoPrm), NoPrm, probe.resource.valid) :
         /\ web' = [web EXCEPT !.rootPrm = Remember(@, r)]
         /\ LET p == [noted(probe, r.status) EXCEPT !.seen.root = r]
                path == getPath(probe.resource)
            IN Continue(IF r.status # "ok" THEN afterRoot(p)
                        ELSE IF r.body.resource = path THEN withResourceMetadata(p, r.body)
                        ELSE IF path = "" THEN withResourceMetadata(p, r.body)
                        ELSE IF StartsWith(path, r.body.resource)
                             THEN [p EXCEPT !.pc = "subPathOfRoot", !.root = r.body]
                        ELSE afterRoot(p))

\* Lines 93-107 and 117-132: {origin}/.well-known/oauth-protected-resource{path}.
FetchSubPathMetadata ==
    /\ probe.pc \in {"subPathOfRoot", "subPath"}
    /\ LET path == getPath(probe.resource) IN
       \E r \in Answers(web.subPrm[path], Responses(PrmDocs({path}), NoPrm), NoPrm, TRUE) :
         /\ web' = [web EXCEPT !.subPrm[path] = Remember(@, r)]
         /\ Continue(withResourceMetadata([noted(probe, r.status) EXCEPT !.seen.sub = r],
                        IF r.status = "ok" THEN r.body
                        ELSE IF probe.pc = "subPathOfRoot" THEN probe.root
                        ELSE NoPrm))

\* resolveCapabilitiesFromAuthorizationServer (lines 71-75) at lines 92, 99,
\* 106 and 113 of probeAuthCapabilities.
FetchAuthorizationServerMetadata ==
    /\ probe.pc \in {"listedServer", "issuerServerRaw", "issuerServer", "origin"}
    /\ LET t == IF probe.pc = "origin" THEN "self" ELSE probe.target
           scopes == probe.pc \in {"listedServer", "issuerServerRaw"} /\ probe.md.scopes
       IN
       \E r \in Answers(web.as[t], Responses(AsDocs(t), NoAsMetadata), NoAsMetadata,
                        t # "self" \/ probe.resource.valid) :
         /\ web' = [web EXCEPT !.as[t] = Remember(@, r)]
         /\ LET source == CASE probe.pc = "listedServer" -> "listed"
                             [] probe.pc \in {"issuerServerRaw", "issuerServer"} -> "issuer"
                             [] probe.pc = "origin" -> "origin"
                p == [noted(probe, r.status) EXCEPT
                         !.asked = Append(@, [source |-> source, server |-> t])] IN
            Continue(IF r.status = "ok" THEN return(p, buildCapabilities(r.body, scopes), r.body)
                     ELSE CASE probe.pc = "listedServer" -> [p EXCEPT !.pc = "issuerRaw"]
                            [] probe.pc = "issuerServerRaw" -> [p EXCEPT !.pc = "issuer"]
                            [] probe.pc = "issuerServer" -> [p EXCEPT !.pc = "origin"]
                            [] probe.pc = "origin" -> return(p, NoCapabilities, NoAsMetadata))

\* One probe of any base URL.
NextProbe ==
    \/ \E u \in BaseUrls : ProbeStart(u, 1)
    \/ GetResource
    \/ PostResource
    \/ FetchHeaderMetadata
    \/ FetchRootMetadata
    \/ FetchSubPathMetadata
    \/ FetchAuthorizationServerMetadata

\* Probes of a server whose answers change from one request to the next and
\* of a network that may fail at any request.
InitProbe ==
    /\ web = NewWeb(FALSE)
    /\ probe = NoProbe
    /\ runs = << >>
    /\ TokensIdle
    /\ ExtIdle
    /\ ProcIdle /\ NegIdle /\ RegIdle

SpecProbe == InitProbe /\ [][NextProbe]_vars

\* Successive probes of one server that answers every endpoint the same way
\* each time; what its own origin hosts as authorization-server metadata
\* (a document, or nothing) is fixed from the start.
InitDiscovery ==
    /\ \E hosted \in {r \in Responses(AsDocs("self"), NoAsMetadata) : r.status # "badjson"} :
         web = [NewWeb(TRUE) EXCEPT !.as["self"] = hosted]
    /\ probe = NoProbe
    /\ runs = << >>
    /\ TokensIdle
    /\ ExtIdle
    /\ ProcIdle /\ NegIdle /\ RegIdle

\* The resource URLs of the server: its endpoints at two path depths.
ResourceUrls == {[valid |-> TRUE, path |-> p, suffix |-> ""] : p \in {"/mcp", "/api/v1/mcp"}}

NextDiscovery ==
    \/ \E u \in ResourceUrls : ProbeStart(u, MaxProbes)
    \/ GetResource
    \/ PostResource
    \/ FetchHeaderMetadata
    \/ FetchRootMetadata
    \/ FetchSubPathMetadata
    \/ FetchAuthorizationServerMetadata

SpecDiscovery == InitDiscovery /\ [][NextDiscovery]_vars

\* C13: probeAuthCapabilities never throws: whatever fails at whichever
\* probe (network, non-2xx, malformed JSON, malformed metadata), the call
\* resolves to a capabilities value, and to exactly { supportsDcr: false }
\* when no probe yielded authorization-server metadata.
C13_ProbeNeverThrows ==
    probe.pc = "done" =>
        /\ probe.outcome = "resolved"
        /\ ~probe.metadata.found => probe.caps = NoCapabilities
        /\ probe.caught => probe.caps = NoCapabilities

\* A probe that met a network failure, a non-2xx answer and malformed JSON
\* has returned.
C13_Witness ==
    /\ probe.pc = "done" /\ probe.caps = NoCapabilities
    /\ probe.failures = {"network", "non2xx", "badjson"}

\* The server sends no challenge header and serves no protected-resource
\* metadata, and authorization-server metadata is hosted at its origin.
OriginMetadataOnly ==
    /\ web.challenge = "none"
    /\ web.headerPrm.status = "unasked"
    /\ web.rootPrm.status = "non2xx"
    /\ \A x \in DOMAIN web.subPrm : web.subPrm[x].status \in {"unasked", "non2xx"}
    /\ web.as["self"].status = "ok"

Includes(baseUrl, word) == <<baseUrl, word>> \in {<<"http://localhost:3000", "localhost">>}

\* detectSelfHostedMode (lines 71-81)
detectSelfHostedMode(baseUrl) == Includes(baseUrl, "localhost") \/ Includes(baseUrl, "127.0.0.1")

tokenKey(baseUrl) == <<"tokens:", baseUrl>>
dcrTokenKey(baseUrl) == <<"dcr-tokens:", baseUrl>>

\* The key the call in progress works on.
AuthKey == IF auth.mode = "selfHosted" THEN dcrTokenKey(auth.baseUrl) ELSE tokenKey(auth.baseUrl)

\* expiresAt of the stored tokens: expired a minute ago, expiring in 3
\* minutes, in exactly 5 minutes, in an hour.
ExpiryTimes == {Now - 60000, Now + 180000, Now + REFRESH_BUFFER_MS, Now + 3600000}

\* Stored token sets: complete, without refreshToken, without client
\* credentials.
StoredTokens ==
    {[accessToken |-> "stored", expiresAt |-> e, creds |-> c] :
        e \in ExpiryTimes, c \in {"full", "noRefresh", "noClient"}}

\* Capabilities with all three endpoints, or with one of them missing.
CapsValues ==
    {c \in [registrationEndpoint : BOOLEAN, authorizationEndpoint : BOOLEAN,
            tokenEndpoint : BOOLEAN] :
        Cardinality({f \in {"registrationEndpoint", "authorizationEndpoint", "tokenEndpoint"} :
                        ~c[f]}) <= 1}

\* expires_in values a token endpoint grants, in seconds.
Lifetimes == {60, 3600}

\* Line 214: the stored token expires within the refresh buffer.
nearExpiry_Always(t) == TRUE

nearExpiry(t) == t.expiresAt < Now + REFRESH_BUFFER_MS

\* The throw of an authenticator call.
fail(a, e) == [a EXCEPT !.pc = "done", !.result = "failed", !.error = e]

returnTokens(a, t) == [a EXCEPT !.pc = "done", !.result = "returned", !.returned = t]

\* Only the registration endpoint is required before registering.
requireEndpoints_RegistrationOnly(a) ==
    IF a.caps.registrationEndpoint
    THEN [a EXCEPT !.pc = "registering", !.registrations = @ + 1]
    ELSE fail(a, "Server does not provide required OAuth endpoints")

\* Lines 145-158 and 235-248: the endpoint check and the registration request.
requireEndpoints(a) ==
    IF a.caps.registrationEndpoint /\ a.caps.authorizationEndpoint /\ a.caps.tokenEndpoint
    THEN [a EXCEPT !.pc = "registering", !.registrations = @ + 1]
    ELSE fail(a, "Server does not provide required OAuth endpoints")

\* Lines 275-285: refreshTokens can send its request.
canRefresh(t, caps) == caps.tokenEndpoint /\ t.creds = "full"

\* InteractiveOAuthFlow.refreshTokens lines 264-270: the refreshed token set.
refreshed_KeepsOldToken(t, expiresIn) == t

refreshed(t, expiresIn) ==
    [accessToken |-> "refreshed", expiresAt |-> Now + expiresIn * 1000, creds |-> "full"]

\* Lines 221-226: the catch around the refresh.
onRefreshFailure_Rethrows(a) == fail([a EXCEPT !.refresh = "failed"], "Token refresh failed")

onRefreshFailure(a) == [a EXCEPT !.refresh = "failed", !.pc = "discarding"]

\* Lines 128-130 and 181-188: /oauth/verify answered 2xx and echoed the token.
verifies_AnyOk(r) == r \in {"echo", "mismatch"}

verifies(r) == r = "echo"

\* Lines 294-295: the keys deleteTokens deletes.
deleteTokensKeys_Both(baseUrl) == {tokenKey(baseUrl), dcrTokenKey(baseUrl)}

deleteTokensKeys(baseUrl) == {tokenKey(baseUrl)}

\* ensureAuthenticated(baseUrl, capabilities) is called: lines 100-118 and
\* 206-210 up to the tokenStore.get.
EnsureAuthenticated(b, caps) ==
    /\ auth.pc \in {"idle", "done"}
    /\ auth.calls < MaxAuthCalls
    /\ auth' = [NoAuth EXCEPT !.op = "ensureAuthenticated", !.pc = "lookup",
                              !.calls = auth.calls + 1, !.baseUrl = b, !.caps = caps,
                              !.mode = IF detectSelfHostedMode(b) THEN "selfHosted" ELSE "external",
                              !.before = store]
    /\ UNCHANGED <<store, procVars, negVars, regVars, probeVars, extVars>>

\* tokenStore.get resolves: lines 118-126 and 210-218.
TokenStoreGet ==
    /\ auth.pc = "lookup"
    /\ LET t == store[AuthKey]
           a == [auth EXCEPT !.found = t, !.tokens = t]
       IN auth' = IF t = NoToken THEN requireEndpoints(a)
                  ELSE IF auth.mode = "selfHosted" THEN [a EXCEPT !.pc = "verifyingStored"]
                  ELSE IF nearExpiry(t)
                       THEN (IF canRefresh(t, auth.caps)
                             THEN [a EXCEPT !.pc = "refreshing", !.refreshCalls = @ + 1]
                             ELSE onRefreshFailure(a))
                  ELSE returnTokens(a, t)
    /\ UNCHANGED <<store, procVars, negVars, regVars, probeVars, extVars>>

\* The token endpoint answers the refresh request (part_002 lines 237-277).
TokenEndpointResponds ==
    /\ auth.pc = "refreshing"
    /\ \/ \E expiresIn \in Lifetimes :
            auth' = [auth EXCEPT !.tokens = refreshed(auth.tokens, expiresIn),
                                 !.refresh = "ok", !.lifetime = expiresIn,
                                 !.pc = "savingRefreshed"]
       \/ auth' = onRefreshFailure(auth)
    /\ UNCHANGED <<store, procVars, negVars, regVars, probeVars, extVars>>

\* tokenStore.set resolves: lines 197-200, 219-230 and 265-268.
TokenStoreSet ==
    /\ auth.pc \in {"savingRefreshed", "savingNew"}
    /\ store' = [store EXCEPT ![AuthKey] = auth.tokens]
    /\ auth' = returnTokens([auth EXCEPT !.sets = @ + 1], auth.tokens)
    /\ UNCHANGED <<procVars, negVars, regVars, probeVars, extVars>>

\* tokenStore.delete resolves: lines 140-158 and 224-248.
TokenStoreDelete ==
    /\ auth.pc = "discarding"
    /\ store' = [store EXCEPT ![AuthKey] = NoToken]
    /\ auth' = requireEndpoints([auth EXCEPT !.deletes = @ + 1, !.tokens = NoToken])
    /\ UNCHANGED <<procVars, negVars, regVars, probeVars, extVars>>

\* The registration endpoint answers: lines 156-172 and 246-262.
RegistrationResponds ==
    /\ auth.pc = "registering"
    /\ \/ auth' = [auth EXCEPT !.pc = "authorizing", !.flows = @ + 1]
       \/ auth' = fail(auth, "DCR registration failed")
    /\ UNCHANGED <<store, procVars, negVars, regVars, probeVars, extVars>>

\* performAuthFlow settles: lines 172-179 and 262-265.
AuthFlowSettles ==
    /\ auth.pc = "authorizing"
    /\ \/ auth' = [auth EXCEPT
                     !.tokens = [accessToken |-> "fresh", expiresAt |-> Now + 3600 * 1000,
                                 creds |-> "full"],
                     !.pc = IF auth.mode = "selfHosted" THEN "verifyingNew" ELSE "savingNew"]
       \/ auth' = fail(auth, "OAuth flow failed")
    /\ UNCHANGED <<store, procVars, negVars, regVars, probeVars, extVars>>

\* {baseUrl}/oauth/verify answers: lines 124-141 and 177-197.
VerifyResponds ==
    /\ auth.pc \in {"verifyingStored", "verifyingNew"}
    /\ \E r \in {"echo", "mismatch", "non2xx", "network", "badjson"} :
         LET a == IF r = "echo"
                  THEN [auth EXCEPT !.verified = auth.tokens.accessToken]
                  ELSE [auth EXCEPT !.verifyFailed =
                          @ \cup {IF auth.pc = "verifyingStored" THEN "stored" ELSE "new"}]
         IN
         auth' = IF auth.pc = "verifyingStored"
                 THEN (IF verifies(r)
                       THEN returnTokens(a, auth.tokens)
                       ELSE [a EXCEPT !.pc = "discarding"])
                 ELSE (IF verifies(r)
                       THEN [a EXCEPT !.pc = "savingNew"]
                       ELSE fail(a, "Self-hosted DCR authentication completed but token verification failed"))
    /\ UNCHANGED <<store, procVars, negVars, regVars, probeVars, extVars>>

\* deleteTokens(baseUrl): lines 293-297.
DeleteTokens(b) ==
    /\ auth.pc \in {"idle", "done"}
    /\ store' = [k \in StoreKeys |-> IF k \in deleteTokensKeys(b) THEN NoToken ELSE store[k]]
    /\ auth' = [NoAuth EXCEPT !.op = "deleteTokens", !.pc = "done", !.calls = auth.calls,
                              !.baseUrl = b, !.before = store]
    /\ UNCHANGED <<procVars, negVars, regVars, probeVars, extVars>>

\* The store an authenticator is constructed over: the external entry of
\* one server holds any stored token set or nothing, the other entries a
\* valid token set or nothing.
InitAuth ==
    /\ \E t \in StoredTokens \cup {NoToken}, d \in BOOLEAN, others \in BOOLEAN :
         LET valid == [accessToken |-> "stored", expiresAt |-> Now + 3600000, creds |-> "full"] IN
         store = [k \in StoreKeys |->
                    IF k = tokenKey("https://api.example.com") THEN t
                    ELSE IF k = dcrTokenKey("http://localhost:3000")
                         THEN (IF d THEN valid ELSE NoToken)
                    ELSE (IF others THEN valid ELSE NoToken)]
    /\ auth = NoAuth
    /\ ProbeIdle
    /\ ExtIdle
    /\ ProcIdle /\ NegIdle /\ RegIdle

NextAuth ==
    \/ \E b \in AuthUrls, caps \in CapsValues : EnsureAuthenticated(b, caps)
    \/ TokenStoreGet
    \/ TokenEndpointResponds
    \/ TokenStoreSet
    \/ TokenStoreDelete
    \/ RegistrationResponds
    \/ AuthFlowSettles
    \/ VerifyResponds
    \/ \E b \in AuthUrls : DeleteTokens(b)

SpecAuth == InitAuth /\ [][NextAuth]_vars

\* All three OAuth endpoints are in the capabilities.
AllEndpoints(caps) ==
    caps.registrationEndpoint /\ caps.authorizationEndpoint /\ caps.tokenEndpoint

\* The errors of the re-authentication path.
ReauthErrors ==
    {"Server does not provide required OAuth endpoints", "DCR registration failed",
     "OAuth flow failed"}

\* C15: in external mode a stored token whose expiresAt is at least 5
\* minutes ahead is returned unchanged in the step that finds it, with no
\* refresh request, no registration, no OAuth flow and no write or delete
\* on the token store.
C15_FreshTokenReturnedAsIs ==
    (/\ auth.op = "ensureAuthenticated" /\ auth.mode = "external"
     /\ auth.found # NoToken
     /\ auth.found.expiresAt >= Now + REFRESH_BUFFER_MS) =>
        /\ auth.pc = "done" /\ auth.result = "returned" /\ auth.returned = auth.found
        /\ auth.refreshCalls = 0 /\ auth.registrations = 0 /\ auth.flows = 0
        /\ auth.sets = 0 /\ auth.deletes = 0
        /\ store = auth.before

\* A token expiring in exactly 5 minutes was returned as it was stored.
C15_Witness ==
    /\ auth.op = "ensureAuthenticated" /\ auth.mode = "external"
    /\ auth.found.accessToken = "stored"
    /\ auth.found.expiresAt = Now + REFRESH_BUFFER_MS
    /\ auth.result = "returned"

\* The stored token was near expiry and refreshable, and the token endpoint
\* accepted the refresh; the call has returned.
RefreshAccepted ==
    /\ auth.op = "ensureAuthenticated" /\ auth.mode = "external" /\ auth.pc = "done"
    /\ auth.found # NoToken /\ auth.found.expiresAt < Now + REFRESH_BUFFER_MS
    /\ auth.found.creds = "full"
    /\ auth.refresh = "ok"

\* C16 as stated: such a call makes exactly one refresh request and no
\* registration, and on return the store holds the refreshed token, whose
\* expiresAt is later than the original one.
C16_RefreshExtendsExpiry ==
    RefreshAccepted =>
        /\ auth.refreshCalls = 1 /\ auth.registrations = 0
        /\ auth.returned.accessToken = "refreshed"
        /\ store[AuthKey] = auth.returned
        /\ auth.returned.expiresAt > auth.found.expiresAt

\* C16 amended: such a call makes exactly one refresh request and no
\* registration, and on return the store holds the refreshed token, whose
\* expiresAt is the time of the refresh plus the granted expires_in: later
\* than the original one whenever the grant lasts at least 5 minutes.
C16_RefreshPersisted ==
    RefreshAccepted =>
        /\ auth.refreshCalls = 1 /\ auth.registrations = 0
        /\ auth.returned.accessToken = "refreshed"
        /\ store[AuthKey] = auth.returned
        /\ auth.returned.expiresAt = Now + auth.lifetime * 1000
        /\ auth.lifetime * 1000 >= REFRESH_BUFFER_MS
              => auth.returned.expiresAt > auth.found.expiresAt

\* A token expiring in 3 minutes was refreshed for an hour.
C16_Witness ==
    /\ RefreshAccepted
    /\ auth.found.expiresAt = Now + 180000
    /\ auth.lifetime = 3600

\* C17: in external mode, once the refresh of the stored token has failed
\* the stored token is deleted and the call continues with the
\* re-authentication path (endpoint check, registration, OAuth flow): it
\* ends with the newly obtained token or with an error of that path, never
\* with the refresh failure.
C17_RefreshFailureFallsThrough ==
    (/\ auth.op = "ensureAuthenticated" /\ auth.mode = "external"
     /\ auth.refresh = "failed") =>
        /\ auth.pc # "discarding" =>
              /\ auth.deletes = 1
              /\ store[AuthKey] # auth.found
              /\ AllEndpoints(auth.caps) => auth.registrations = 1
        /\ auth.result = "failed" => auth.error \in ReauthErrors
        /\ auth.result = "returned" =>
              /\ auth.returned.accessToken = "fresh" /\ auth.flows = 1
              /\ store[AuthKey] = auth.returned

\* After a failed refresh the call returned a token from the OAuth flow.
C17_Witness ==
    /\ auth.op = "ensureAuthenticated" /\ auth.mode = "external"
    /\ auth.refresh = "failed" /\ auth.refreshCalls = 1
    /\ auth.result = "returned"

\* C18: a stored token set without refreshToken or client credentials that
\* has not expired yet is returned and stays in the store.
C18_NonRefreshableUsableUntilExpiry ==
    (/\ auth.op = "ensureAuthenticated" /\ auth.mode = "external" /\ auth.pc = "done"
     /\ auth.found # NoToken /\ auth.found.creds # "full"
     /\ auth.found.expiresAt > Now) =>
        /\ auth.result = "returned" /\ auth.returned = auth.found
        /\ store[AuthKey] = auth.found

\* C19: in self-hosted mode a token is returned only if /oauth/verify
\* echoed it during the call; a stored token that fails the check is
\* deleted and re-authentication follows; a new token that fails it makes
\* the call fail and is not written to the store.
C19_SelfHostedVerified ==
    (auth.op = "ensureAuthenticated" /\ auth.mode = "selfHosted") =>
        /\ auth.result = "returned" =>
              /\ auth.verified = auth.returned.accessToken
              /\ \/ (auth.returned = auth.found /\ auth.verifyFailed = {})
                 \/ store[AuthKey] = auth.returned
        /\ ("stored" \in auth.verifyFailed /\ auth.pc # "discarding") =>
              /\ auth.deletes = 1
              /\ auth.result # "returned" => store[AuthKey] = NoToken
              /\ AllEndpoints(auth.caps) => auth.registrations = 1
        /\ "new" \in auth.verifyFailed =>
              /\ auth.result = "failed" /\ auth.sets = 0
              /\ store[AuthKey] = NoToken

\* A stored token failed the check and the call returned a new, verified one.
C19_Witness ==
    /\ auth.op = "ensureAuthenticated" /\ auth.mode = "selfHosted"
    /\ auth.verifyFailed = {"stored"}
    /\ auth.result = "returned" /\ auth.verified = "fresh"

\* C20: deleteTokens(baseUrl) empties tokens:<baseUrl> and leaves every
\* other entry of the store as it was.
C20_DeleteTokensFrame ==
    auth.op = "deleteTokens" =>
        /\ store[tokenKey(auth.baseUrl)] = NoToken
        /\ \A k \in StoreKeys : k # tokenKey(auth.baseUrl) => store[k] = auth.before[k]

\* deleteTokens removed an entry while the other entries held tokens.
C20_Witness ==
    /\ auth.op = "deleteTokens"
    /\ auth.before[tokenKey(auth.baseUrl)] # NoToken
    /\ \A k \in StoreKeys : k # tokenKey(auth.baseUrl) => store[k] # NoToken


(***************************************************************************)
(* src/auth/interactive-oauth-flow.ts : performAuthFlow                    *)
(* src/auth/oauth-callback-listener.ts : OAuthCallbackListener             *)
(***************************************************************************)

\* What a request to the callback server carries: a /callback with an
\* error parameter, without a code, with a code, or another path.
CallbackKinds == {"error", "missingCode", "code", "notFound"}

\* performAuthFlow settles with what its try block returned or threw.
settle(f) == [f EXCEPT !.pc = "done", !.outcome = f.pending]

\* OAuthCallbackListener.stop (lines 171-188) up to its await: the timer
\* is cleared and, if this.server is set, server.close(callback) is called,
\* which closes the listening socket at once and calls back on 'close'.
\* Without a server, a stop() awaited by performAuthFlow returns at once.
listenerStop(f, caller) ==
    LET g == [f EXCEPT !.timeout = FALSE, !.stopCalls = @ + 1] IN
    IF g.server
    THEN [g EXCEPT !.handle = IF @ = "listening" THEN "closed" ELSE @,
                   !.closing = @ \cup {caller}]
    ELSE IF caller = "finally" THEN settle(g) ELSE g

\* performAuthFlow with the listener stopped only after a successful
\* token exchange.
finally_OnSuccessOnly(f, result) ==
    IF result = "tokens"
    THEN listenerStop([f EXCEPT !.pc = "finally", !.pending = result], "finally")
    ELSE settle([f EXCEPT !.pending = result])

\* performAuthFlow lines 163-170: whatever the try block returned or threw,
\* the finally block awaits callbackListener.stop().
finally(f, result) ==
    listenerStop([f EXCEPT !.pc = "finally", !.pending = result], "finally")

\* callbackListener.start() (lines 118, 40-62): the server is created and
\* asked to listen on the port.
listenerStart(f) ==
    [f EXCEPT !.pc = "start", !.started = TRUE, !.server = TRUE, !.handle = "binding"]

\* performAuthFlow is called (lines 105-118).
PerformAuthFlow(pkce, validUrl) ==
    /\ flow.pc = "idle"
    /\ LET f == [flow EXCEPT !.pkce = pkce, !.validUrl = validUrl] IN
       flow' = IF pkce THEN [f EXCEPT !.pc = "pkce"] ELSE listenerStart(f)
    /\ UNCHANGED <<http, boot, procVars, negVars, regVars, authVars>>

\* generatePkce settles (line 113); a rejection leaves performAuthFlow
\* before its try block.
PkceSettles(ok) ==
    /\ flow.pc = "pkce"
    /\ flow' = IF ok THEN listenerStart(flow)
               ELSE settle([flow EXCEPT !.pending = "pkceFailed"])
    /\ UNCHANGED <<http, boot, procVars, negVars, regVars, authVars>>

\* server.listen calls back, or the server emits 'error' (lines 54-60).
\* Once listening, the authorization URL is built, the browser opened and
\* waitForCallback called (lines 121-157, 155-166).
ListenSettles(ok) ==
    /\ flow.pc = "start"
    /\ flow' = IF ~ok
               THEN finally([flow EXCEPT !.handle = "failed"], "bindFailed")
               ELSE LET f == [flow EXCEPT !.handle = "listening"] IN
                    IF ~f.validUrl THEN finally(f, "invalidUrl")
                    ELSE [f EXCEPT !.pc = "wait", !.callbacks = TRUE,
                                   !.timeout = TRUE, !.wait = "pending"]
    /\ UNCHANGED <<http, boot, procVars, negVars, regVars, authVars>>

\* handleCallback (lines 81-150): the page is sent and, if waitForCallback
\* has installed them, rejectCallback / resolveCallback is called; calling
\* them on a promise already settled changes nothing.
handleCallback(f, kind) ==
    IF ~f.callbacks THEN [f EXCEPT !.dropped = @ + 1]
    ELSE IF f.wait = "pending" THEN [f EXCEPT !.wait = kind]
    ELSE f

\* handleRequest / handleCallback (lines 67-150): a request arrives at the
\* listening server.
CallbackRequest(kind) ==
    /\ flow.handle = "listening"
    /\ flow.requests < MaxCallbacks
    /\ LET f == [flow EXCEPT !.requests = @ + 1, !.connections = @ + 1] IN
       flow' = IF kind = "notFound" THEN f
               ELSE handleCallback([f EXCEPT !.received = Append(@, kind)], kind)
    /\ UNCHANGED <<http, boot, procVars, negVars, regVars, authVars>>

\* A socket of the callback server ends.
ConnectionEnds ==
    /\ flow.connections > 0
    /\ flow' = [flow EXCEPT !.connections = @ - 1]
    /\ UNCHANGED <<http, boot, procVars, negVars, regVars, authVars>>

\* The timer of waitForCallback fires (lines 161-164): the promise is
\* rejected and stop() is called without being awaited.
CallbackTimeout ==
    /\ flow.timeout
    /\ flow' = listenerStop([flow EXCEPT !.wait = IF @ = "pending" THEN "timeout" ELSE @],
                            "timer")
    /\ UNCHANGED <<http, boot, procVars, negVars, regVars, authVars>>

\* The code is exchanged whatever the wait settled with.
afterWait_AlwaysExchanges(f) ==
    [f EXCEPT !.pc = "exchange", !.exchanges = @ + 1]

\* performAuthFlow lines 157-160: a resolved wait is followed by the
\* request to the token endpoint, a rejected one is thrown.
afterWait(f) ==
    IF f.wait = "code" THEN [f EXCEPT !.pc = "exchange", !.exchanges = @ + 1]
    ELSE finally(f, f.wait)

\* performAuthFlow resumes from await waitForCallback (lines 157-160).
WaitSettles ==
    /\ flow.pc = "wait"
    /\ flow.wait \notin {"none", "pending"}
    /\ flow' = afterWait(flow)
    /\ UNCHANGED <<http, boot, procVars, negVars, regVars, authVars>>

\* exchangeCodeForTokens settles (lines 160-162, 176-224).
ExchangeSettles(ok) ==
    /\ flow.pc = "exchange"
    /\ flow' = finally(flow, IF ok THEN "tokens" ELSE "exchangeFailed")
    /\ UNCHANGED <<http, boot, procVars, negVars, regVars, authVars>>

\* The server emits 'close' once its socket is closed and its connections
\* have ended: every stop() waiting on it sets this.server = undefined and
\* returns (lines 180-186).
ListenerCloseEvent ==
    /\ flow.closing # {}
    /\ flow.handle \in {"closed", "failed"}
    /\ flow.connections = 0
    /\ LET f == [flow EXCEPT !.server = FALSE, !.closing = {}] IN
       flow' = IF "finally" \in flow.closing THEN settle(f) ELSE f
    /\ UNCHANGED <<http, boot, procVars, negVars, regVars, authVars>>

InitFlow ==
    /\ flow = NoFlow
    /\ HttpIdle /\ BootIdle
    /\ ProcIdle /\ NegIdle /\ RegIdle /\ AuthIdle

NextFlow ==
    \/ \E pkce \in BOOLEAN, validUrl \in BOOLEAN : PerformAuthFlow(pkce, validUrl)
    \/ \E ok \in BOOLEAN : PkceSettles(ok)
    \/ \E ok \in BOOLEAN : ListenSettles(ok)
    \/ \E kind \in CallbackKinds : CallbackRequest(kind)
    \/ ConnectionEnds
    \/ CallbackTimeout
    \/ WaitSettles
    \/ \E ok \in BOOLEAN : ExchangeSettles(ok)
    \/ ListenerCloseEvent

SpecFlow == InitFlow /\ [][NextFlow]_vars

\* C21: once performAuthFlow has called callbackListener.start(), it does
\* not settle before the listener is stopped: when it has settled, the
\* listening socket is closed (or was never bound), this.server is unset,
\* no timer is pending and no stop() is still waiting, whatever the try
\* block returned or threw.
C21_ListenerStoppedBeforeSettle ==
    (flow.pc = "done" /\ flow.started) =>
        /\ flow.handle \in {"closed", "failed"}
        /\ ~flow.server
        /\ ~flow.timeout
        /\ flow.closing = {}
        /\ flow.stopCalls >= 1
        /\ flow.outcome \in {"tokens", "error", "missingCode", "timeout",
                             "exchangeFailed", "bindFailed", "invalidUrl"}

\* The wait timed out: the timer stopped the listener and the finally block
\* stopped it again before performAuthFlow settled.
C21_Witness ==
    /\ flow.pc = "done" /\ flow.started
    /\ flow.outcome = "timeout"
    /\ flow.stopCalls = 2


(***************************************************************************)
(* src/connection/connect-client.ts : connectMcpClient, HTTP path          *)
(***************************************************************************)

\* waitForHttpReady: the default of timeoutMs, the pause between two polls
\* and the AbortSignal timeout of one HEAD request, in milliseconds.
ReadyTimeoutMs == 30000
PollIntervalMs == 100
AttemptTimeoutMs == 500

\* waitForHttpReady line 344: Math.ceil(timeoutMs / 100)
maxRetries == (ReadyTimeoutMs + PollIntervalMs - 1) \div PollIntervalMs

\* Statuses of a HEAD response; -1 stands for a fetch that threw
\* (connection refused, network error, or the abort after 500 ms).
HeadOutcomes == {200, 499, 500, -1}

\* How long one HEAD request takes: no measurable time, or the full
\* per-attempt timeout.
FetchTimes == {0, AttemptTimeoutMs}

\* waitForHttpReady line 356
isReady(status) == status >= 200 /\ status < 500

\* Substrings that connectMcpClient looks for in an error message; a
\* message is modelled by the set of these it contains.
Signatures == {"Connection refused", "Missing session ID", "404", "405"}

\* The errors the Streamable HTTP attempt can throw: error.cause.code and
\* what error.message contains.
StreamableErrors ==
    {[thrown |-> TRUE, cause |-> c, message |-> {}] : c \in {"ECONNREFUSED", "ENOTFOUND", "none"}}
    \cup {[thrown |-> TRUE, cause |-> "none", message |-> {m}] : m \in Signatures}
    \cup {[thrown |-> TRUE, cause |-> "none", message |-> {"Connection refused", "404"}]}

\* withTimeout line 49: 'Timeout after 30000ms: StreamableHTTP connection'
TimeoutError == [thrown |-> TRUE, cause |-> "none", message |-> {}]

\* The connection-refused test with the message ignored.
isConnectionRefused_CauseOnly(error) == error.cause = "ECONNREFUSED"

\* connectMcpClient lines 271-272
isConnectionRefused(error) ==
    error.cause = "ECONNREFUSED" \/ "Connection refused" \in error.message

\* connectMcpClient lines 281-284
shouldFallback(error) ==
    \/ "Missing session ID" \in error.message
    \/ "404" \in error.message
    \/ "405" \in error.message

\* Keys a configuration can use for its one static header.
StaticKeys == {"none", "Authorization", "authorization", "X-Api-Key"}

\* serverConfig.headers || {} (lines 247, 297), as a set of <<key, value>>.
staticHeaders(static) == IF static = "none" THEN {} ELSE {<<static, "static">>}

\* lines 248, 298
dcrHeaders(authToken) ==
    IF authToken # "none" THEN {<<"Authorization", "Bearer " \o authToken>>} ELSE {}

\* { ...staticHeaders, ...dcrHeaders } (lines 249, 299): a key of the
\* second object replaces the same key, compared as a string, of the first.
mergedHeaders(static, authToken) ==
    LET a == staticHeaders(static)
        b == dcrHeaders(authToken)
    IN  b \cup {p \in a : \A q \in b : q[1] # p[1]}

\* The bounds and the descriptions connectMcpClient hands to withTimeout
\* (lines 216, 263, 313).
DiscoveryTimeoutMs == 5000
ConnectTimeoutMs == 30000

timeoutMs(op) == IF op = "discovery" THEN DiscoveryTimeoutMs ELSE ConnectTimeoutMs

timeoutOperation(op) ==
    CASE op = "discovery" -> "DCR capability discovery"
      [] op = "streamable" -> "StreamableHTTP connection"
      [] op = "sse" -> "SSE connection"

\* withTimeout lines 46-50: the race is set up and the timer started.
withTimeout(h, op) == [h EXCEPT !.timers[op] = "pending"]

\* The wrapped promise settles and the timer is left alone.
operationSettles_TimerKept(h, op) ==
    [h EXCEPT !.running = @ \ {op},
              !.raced[op] = IF @.by = "none"
                            THEN [by |-> "operation", ms |-> 0, operation |-> ""] ELSE @]

\* withTimeout line 47: the wrapped promise settles, its finally callback
\* clears the timer, and the race settles with the promise's outcome unless
\* it has settled already.
operationSettles(h, op) ==
    [h EXCEPT !.running = @ \ {op},
              !.timers[op] = IF @ = "pending" THEN "cleared" ELSE @,
              !.raced[op] = IF @.by = "none"
                            THEN [by |-> "operation", ms |-> 0, operation |-> ""] ELSE @]

\* withTimeout line 49: the timer fires and rejects the race with
\* 'Timeout after {ms}ms: {operation}'.
timerFires(h, op) ==
    [h EXCEPT !.timers[op] = "fired",
              !.raced[op] = IF @.by = "none"
                            THEN [by |-> "timer", ms |-> timeoutMs(op),
                                  operation |-> timeoutOperation(op)]
                            ELSE @]

\* A step of the call starts: it is logged, and it overlaps when an
\* operation started earlier has not settled.
begin(h, step, pc) ==
    [h EXCEPT !.pc = pc,
              !.log = Append(@, step),
              !.overlap = @ \/ h.running # {},
              !.running = @ \cup {step}]

\* connectMcpClient throws or returns.
finish(h, result) == [h EXCEPT !.pc = "done", !.result = result]

\* lines 215-216: probeAuthCapabilities is started under a 5 s timeout.
startDiscovery(h) == withTimeout(begin(h, "discovery", "discovery"), "discovery")

\* lines 244-263: the headers are merged and client.connect is started on
\* a StreamableHTTPClientTransport under a 30 s timeout.
startStreamable(h, static) ==
    LET g == withTimeout(begin([h EXCEPT !.static = static], "streamable", "streamable"),
                         "streamable") IN
    [g EXCEPT !.attempts = Append(@, [transport |-> "StreamableHTTP",
                                       headers |-> mergedHeaders(static, h.authToken)])]

\* lines 292-313: a second client and an SSEClientTransport with the same
\* merged headers; sseClient.connect is started under a 30 s timeout.
startSse(h) ==
    LET g == withTimeout(begin(h, "sse", "sse"), "sse") IN
    [g EXCEPT !.created = @ \cup {"sseClient"},
              !.attempts = Append(@, [transport |-> "SSE",
                                       headers |-> mergedHeaders(h.static, h.authToken)])]

\* lines 264-290: the catch block of the Streamable HTTP attempt.
onStreamableError(h, error) ==
    LET g == [h EXCEPT !.error = error] IN
    IF isConnectionRefused(error)
    THEN [g EXCEPT !.pc = "refusedClose", !.closes["client"] = "pending"]
    ELSE startSse(g)

\* The cleanup after a failed SSE attempt with only the SSE client closed.
onSseError_SseClientOnly(h, sseError) ==
    [h EXCEPT !.pc = "cleanup", !.sseError = sseError,
              !.closes = [@ EXCEPT !["sseClient"] = "pending"]]

\* lines 316-319: close() is called on both clients and both are awaited.
onSseError(h, sseError) ==
    [h EXCEPT !.pc = "cleanup", !.sseError = sseError,
              !.closes = [c \in {"client", "sseClient"} |-> "pending"]]

\* connectMcpClient is called for an HTTP entry with a url (lines 145-210):
\* the first client is created and, for a server the registry spawned,
\* waitForHttpReady sends its first HEAD request.
HttpConnect(spawned) ==
    /\ http.pc = "idle"
    /\ LET h == [http EXCEPT !.spawned = spawned, !.created = {"client"}] IN
       http' = IF spawned THEN begin(h, "poll", "polling") ELSE startDiscovery(h)
    /\ UNCHANGED <<flow, boot, procVars, negVars, regVars, authVars>>

\* waitForHttpReady lines 347-368: one HEAD request settles after d ms.
HeadSettles(status, d) ==
    /\ http.pc = "polling"
    /\ LET h == [http EXCEPT !.elapsed = @ + d, !.last = status] IN
       http' = IF status # -1 /\ isReady(status)
               THEN startDiscovery([h EXCEPT !.ready = "ready", !.running = {},
                                             !.i = 0, !.elapsed = 0])
               ELSE IF status = -1 /\ h.i = maxRetries - 1
               THEN finish([h EXCEPT !.ready = "notReady", !.running = {}], "not ready")
               ELSE [h EXCEPT !.pc = "sleep"]
    /\ UNCHANGED <<flow, boot, procVars, negVars, regVars, authVars>>

\* waitForHttpReady lines 346, 370-374: the pause ends and the loop goes on
\* or runs out.
SleepEnds ==
    /\ http.pc = "sleep"
    /\ LET h == [http EXCEPT !.elapsed = @ + PollIntervalMs, !.i = @ + 1] IN
       http' = IF h.i < maxRetries THEN [h EXCEPT !.pc = "polling"]
               ELSE finish([h EXCEPT !.ready = "notReady", !.running = {}], "not ready")
    /\ UNCHANGED <<flow, boot, procVars, negVars, regVars, authVars>>

\* lines 216-242: probeAuthCapabilities returns before the timeout; with
\* supportsDcr, getPort and ensureAuthenticated follow, otherwise the
\* Streamable HTTP attempt.
DiscoverySettles(supportsDcr, static) ==
    /\ http.pc = "discovery"
    /\ LET h == [operationSettles(http, "discovery") EXCEPT
                             !.caps = IF supportsDcr THEN "dcr" ELSE "noDcr"] IN
       http' = IF supportsDcr THEN begin(h, "token", "token")
               ELSE startStreamable(h, static)
    /\ UNCHANGED <<flow, boot, procVars, negVars, regVars, authVars>>

\* lines 216, 43-52: the 5 s timer wins the race; the probe goes on.
DiscoveryTimeout ==
    /\ http.pc = "discovery"
    /\ http' = finish(timerFires(http, "discovery"), "Timeout: DCR capability discovery")
    /\ UNCHANGED <<flow, boot, procVars, negVars, regVars, authVars>>

\* lines 236-237: ensureAuthenticated returns tokens or throws.
TokenSettles(ok, static) ==
    /\ http.pc = "token"
    /\ LET h == [http EXCEPT !.running = @ \ {"token"}] IN
       http' = IF ok THEN startStreamable([h EXCEPT !.authToken = "tok"], static)
               ELSE finish(h, "authentication failed")
    /\ UNCHANGED <<flow, boot, procVars, negVars, regVars, authVars>>

\* line 263: client.connect settles before the timeout.
StreamableSettles(error) ==
    /\ http.pc = "streamable"
    /\ LET h == operationSettles(http, "streamable") IN
       http' = IF ~error.thrown THEN finish(h, "client")
               ELSE onStreamableError(h, error)
    /\ UNCHANGED <<flow, boot, procVars, negVars, regVars, authVars>>

\* lines 263, 43-52: the 30 s timer wins the race; client.connect goes on.
StreamableTimeout ==
    /\ http.pc = "streamable"
    /\ http' = onStreamableError(timerFires(http, "streamable"), TimeoutError)
    /\ UNCHANGED <<flow, boot, procVars, negVars, regVars, authVars>>

\* line 276: client.close() settles, and connect throws 'Server not
\* running'.
RefusedCloseSettles ==
    /\ http.pc = "refusedClose"
    /\ http' = finish([http EXCEPT !.closes["client"] = "settled"], "Server not running")
    /\ UNCHANGED <<flow, boot, procVars, negVars, regVars, authVars>>

\* lines 313-319: sseClient.connect settles before the timeout.
SseSettles(ok) ==
    /\ http.pc = "sse"
    /\ LET h == operationSettles(http, "sse") IN
       http' = IF ok THEN finish(h, "sseClient")
               ELSE onSseError(h, "SSE connection failed")
    /\ UNCHANGED <<flow, boot, procVars, negVars, regVars, authVars>>

\* lines 313, 43-52: the 30 s timer wins the race; sseClient.connect goes on.
SseTimeout ==
    /\ http.pc = "sse"
    /\ http' = onSseError(timerFires(http, "sse"), "Timeout: SSE connection")
    /\ UNCHANGED <<flow, boot, procVars, negVars, regVars, authVars>>

\* line 318: one of the close() calls settles; when all have, connect
\* throws the SSE attempt's error (line 319).
CleanupCloseSettles(c) ==
    /\ http.pc = "cleanup"
    /\ http.closes[c] = "pending"
    /\ LET h == [http EXCEPT !.closes[c] = "settled"] IN
       http' = IF \A k \in DOMAIN h.closes : h.closes[k] # "pending"
               THEN finish(h, h.sseError)
               ELSE h
    /\ UNCHANGED <<flow, boot, procVars, negVars, regVars, authVars>>

\* An operation whose timeout fired settles with nobody awaiting it.
AbandonedSettles(op) ==
    /\ op \in http.running
    /\ http.pc # op
    /\ op \in {"discovery", "streamable", "sse"}
    /\ http' = operationSettles(http, op)
    /\ UNCHANGED <<flow, boot, procVars, negVars, regVars, authVars>>

InitHttp ==
    /\ http = NoHttp
    /\ FlowIdle /\ BootIdle
    /\ ProcIdle /\ NegIdle /\ RegIdle /\ AuthIdle

NextHttp ==
    \/ \E spawned \in BOOLEAN : HttpConnect(spawned)
    \/ \E status \in HeadOutcomes, d \in FetchTimes : HeadSettles(status, d)
    \/ SleepEnds
    \/ \E supportsDcr \in BOOLEAN, static \in StaticKeys : DiscoverySettles(supportsDcr, static)
    \/ DiscoveryTimeout
    \/ \E ok \in BOOLEAN, static \in StaticKeys : TokenSettles(ok, static)
    \/ \E error \in StreamableErrors \cup {[thrown |-> FALSE, cause |-> "none", message |-> {}]} :
            StreamableSettles(error)
    \/ StreamableTimeout
    \/ RefusedCloseSettles
    \/ \E ok \in BOOLEAN : SseSettles(ok)
    \/ SseTimeout
    \/ \E c \in {"client", "sseClient"} : CleanupCloseSettles(c)
    \/ \E op \in {"discovery", "streamable", "sse"} : AbandonedSettles(op)

SpecHttp == InitHttp /\ [][NextHttp]_vars


\* The error is a connection-refused condition.
RefusedCondition(error) ==
    error.thrown /\ (error.cause = "ECONNREFUSED" \/ "Connection refused" \in error.message)

\* The error message carries one of the legacy-protocol signatures.
LegacySignature(error) ==
    error.thrown /\ error.message \cap {"Missing session ID", "404", "405"} # {}

SseAttempts == {k \in DOMAIN http.log : http.log[k] = "sse"}

\* C22: when the Streamable HTTP attempt fails with a connection-refused
\* condition (cause code ECONNREFUSED, or a message containing 'Connection
\* refused'), close() is called on the first client, no SSE client is
\* created and no SSE attempt is started, and connect fails with 'Server
\* not running' once that close() has settled.
C22_RefusedFailsFast ==
    RefusedCondition(http.error) =>
        /\ http.pc \in {"refusedClose", "done"}
        /\ http.closes["client"] # "no"
        /\ SseAttempts = {}
        /\ "sseClient" \notin http.created
        /\ http.pc = "done" =>
              /\ http.result = "Server not running"
              /\ http.closes["client"] = "settled"

\* connect has failed with 'Server not running' for an error that is
\* refused by its message only.
C22_Witness ==
    /\ http.pc = "done"
    /\ http.result = "Server not running"
    /\ http.error.cause = "none"
    /\ "Connection refused" \in http.error.message

\* C23: an SSE attempt is started only after a Streamable HTTP failure
\* that carries a legacy-protocol signature (Missing session ID, 404, 405)
\* and is not a connection-refused condition, and at most one SSE attempt
\* is made in a connect call.
C23_FallbackOnlyOnSignature ==
    /\ SseAttempts # {} => (LegacySignature(http.error) /\ ~RefusedCondition(http.error))
    /\ Cardinality(SseAttempts) <= 1

\* C24: when the SSE attempt has failed, close() is called on both the
\* Streamable HTTP client and the SSE client, and connect does not reject
\* before both calls have settled; it rejects with the SSE attempt's error.
C24_BothClosedBeforeReject ==
    http.sseError # "none" =>
        /\ \A c \in {"client", "sseClient"} : http.closes[c] # "no"
        /\ http.pc \in {"cleanup", "done"}
        /\ http.pc = "done" =>
              /\ \A c \in {"client", "sseClient"} : http.closes[c] = "settled"
              /\ http.result = http.sseError

\* connect has rejected with the error of a failed SSE attempt.
C24_Witness ==
    /\ http.pc = "done"
    /\ http.sseError = "SSE connection failed"
    /\ http.result = "SSE connection failed"
    /\ LegacySignature(http.error)

\* C25: readiness polling ends successfully as soon as a HEAD response has
\* a status from 200 to 499; after a 5xx response or a network error it
\* pauses and polls again; and when it gives up with 'not ready', no more
\* than the overall timeout (and the request and pause in progress when it
\* ran out) has elapsed.
C25_ReadinessPolling ==
    /\ (http.last >= 200 /\ http.last < 500) =>
            (http.ready = "ready" /\ http.pc \notin {"polling", "sleep"})
    /\ http.pc = "sleep" => (http.last = -1 \/ http.last >= 500)
    /\ http.ready = "ready" => (http.last >= 200 /\ http.last < 500)
    /\ http.ready = "notReady" =>
            http.elapsed <= ReadyTimeoutMs + AttemptTimeoutMs + PollIntervalMs

\* The position of a step in the order of the HTTP path.
Rank(step) ==
    CASE step = "poll" -> 1
      [] step = "discovery" -> 2
      [] step = "token" -> 3
      [] step = "streamable" -> 4
      [] step = "sse" -> 5

\* The name of a header field, which is case-insensitive.
FieldName(key) ==
    CASE key = "Authorization" -> "authorization"
      [] key = "X-Api-Key" -> "x-api-key"
      [] OTHER -> key

\* The values a set of headers gives the Authorization field.
AuthorizationValues(headers) ==
    {p[2] : p \in {q \in headers : FieldName(q[1]) = "authorization"}}

\* C29: the steps of one HTTP connect call start in the order readiness
\* polling, discovery, token acquisition, Streamable HTTP attempt, SSE
\* attempt, each only when no earlier one is still running; polling is
\* made exactly for a spawned server and token acquisition exactly when
\* discovery reported DCR support; and with a token, every transport
\* attempt has 'Bearer <token>' as the one value of its Authorization
\* header, whatever the configuration's static headers are.
C29_StepsInOrder ==
    /\ \A j, k \in DOMAIN http.log : j < k => Rank(http.log[j]) < Rank(http.log[k])
    /\ http.log # << >> => (http.spawned <=> http.log[1] = "poll")
    /\ "token" \in Range(http.log) => http.caps = "dcr"
    /\ ("streamable" \in Range(http.log) /\ http.caps = "dcr") => "token" \in Range(http.log)
    /\ ~http.overlap
    /\ \A k \in DOMAIN http.attempts :
          http.authToken # "none" =>
              AuthorizationValues(http.attempts[k].headers) = {"Bearer " \o http.authToken}


(***************************************************************************)
(* src/spawn/spawn-servers.ts : createServerRegistry, getSpawnConfig       *)
(***************************************************************************)

Dialects == {"servers", "start"}

\* The entries of a configuration: an optional type, an optional url, a
\* command or none, a start block or none.
BootEntries ==
    [present : {TRUE}, type : {"none", "stdio", "http"}, url : {"", "http://h/mcp"},
     command : BOOLEAN, start : BOOLEAN]

\* What spawnProcess can do: return a running child, throw, or return a
\* child whose spawn failed and reports it with an 'error' event.
SpawnOutcomes == {"ok", "threw", "errorEvent"}

\* getSpawnConfig (lines 120-172): "none" for shouldSpawn false, otherwise
\* the part of the entry that the command, args and env are taken from.
getSpawnConfig(e, dialects) ==
    LET transportType == registryInferTransportType(e)
        hasServers == "servers" \in dialects
        hasStart == "start" \in dialects
    IN  IF hasServers /\ ~hasStart
        THEN IF transportType = "stdio" /\ e.command THEN "command" ELSE "none"
        ELSE IF hasStart /\ ~hasServers
        THEN IF e.start THEN "start" ELSE "none"
        ELSE IF e.start THEN "start"
        ELSE IF transportType = "stdio" /\ e.command THEN "command"
        ELSE "none"

\* createServerRegistry lines 309-358: for every entry the spawn
\* configuration is computed; an entry to spawn is handed to spawnProcess
\* and its handle stored in servers, unless spawnProcess throws, which is
\* logged.
spawnLoop(config, dialects, outcomes) ==
    LET source == [n \in BootNames |->
                      IF config[n].present THEN getSpawnConfig(config[n], dialects) ELSE "none"]
        spawn == [n \in BootNames |-> IF source[n] # "none" THEN outcomes[n] ELSE "none"]
    IN  [NoBoot EXCEPT !.pc = "done", !.dialects = dialects, !.config = config,
                       !.source = source, !.spawn = spawn,
                       !.servers = {n \in BootNames : spawn[n] \in {"ok", "errorEvent"}},
                       !.logged = {n \in BootNames : spawn[n] = "threw"}]

\* createServerRegistry(serversConfig, {dialects}) with a valid
\* configuration and working directory.
CreateServerRegistry(config, dialects, outcomes) ==
    /\ boot.pc = "idle"
    /\ boot' = spawnLoop(config, dialects, outcomes)
    /\ UNCHANGED <<flow, http, procVars, negVars, regVars, authVars>>

\* The child of a failed spawn emits 'error' (spawn-server.ts line 140
\* logs it); its handle stays in servers.
SpawnErrorEvent(n) ==
    /\ boot.pc = "done"
    /\ boot.spawn[n] = "errorEvent"
    /\ n \notin boot.emitted
    /\ boot' = [boot EXCEPT !.emitted = @ \cup {n}]
    /\ UNCHANGED <<flow, http, procVars, negVars, regVars, authVars>>

\* registry.connect(name) after construction (lines 361-438), up to the
\* transport that connectMcpClient starts or the error it throws.
LaterConnect(n) ==
    /\ boot.pc = "done"
    /\ boot.later[n] = "none"
    /\ LET e == boot.config[n]
           r == connectMcpClientStart(e, n \in boot.servers)
       IN  boot' = [boot EXCEPT !.later[n] =
                       IF ~e.present THEN "not found"
                       ELSE IF r.error # "none" THEN r.error ELSE r.attempt]
    /\ UNCHANGED <<flow, http, procVars, negVars, regVars, authVars>>

InitBoot ==
    /\ boot = NoBoot
    /\ FlowIdle /\ HttpIdle
    /\ ProcIdle /\ NegIdle /\ RegIdle /\ AuthIdle

NextBoot ==
    \/ /\ boot.pc = "idle"
       /\ \E config \in [BootNames -> BootEntries \cup {AbsentEntry}],
             dialects \in SUBSET Dialects,
             outcomes \in [BootNames -> SpawnOutcomes] :
               CreateServerRegistry(config, dialects, outcomes)
    \/ \E n \in BootNames : SpawnErrorEvent(n)
    \/ \E n \in BootNames : LaterConnect(n)

SpecBoot == InitBoot /\ [][NextBoot]_vars

\* The transport the registry infers for an entry is stdio.
IsStdio(e) == e.type = "stdio" \/ (e.type = "none" /\ e.url = "")

\* C26: an entry is spawned from its start block only if 'start' is in the
\* dialect set, and from its command only if 'servers' is in the set and
\* its transport is stdio; with both dialects an entry with a start block
\* is spawned from it and a stdio entry with a command and no start block
\* from its command; an entry that matches neither is not spawned.
C26_DialectsDecideSpawn ==
    boot.pc = "done" =>
      \A n \in BootNames :
        LET e == boot.config[n] IN
        /\ boot.source[n] = "start" => ("start" \in boot.dialects /\ e.start)
        /\ boot.source[n] = "command" =>
              ("servers" \in boot.dialects /\ IsStdio(e) /\ e.command)
        /\ (boot.dialects = Dialects /\ e.start) => boot.source[n] = "start"
        /\ (boot.dialects = Dialects /\ ~e.start /\ IsStdio(e) /\ e.command)
              => boot.source[n] = "command"
        /\ (boot.dialects = {"servers"} /\ IsStdio(e) /\ e.command)
              => boot.source[n] = "command"
        /\ (boot.dialects = {"start"} /\ e.start) => boot.source[n] = "start"
        /\ ~e.present => boot.source[n] = "none"

\* C27: when spawning an entry has failed, construction has still
\* succeeded and every other entry to be spawned has its handle; the
\* failed entry has no handle in registry.servers, and a later connect for
\* its name throws instead of starting a transport that runs a process.
C27_SpawnFailureIsolated ==
    boot.pc = "done" =>
      \A n \in BootNames :
        /\ boot.spawn[n] = "ok" => n \in boot.servers
        /\ boot.spawn[n] \in {"threw", "errorEvent"} =>
              /\ n \notin boot.servers
              /\ boot.later[n] \notin {"StdioClientTransport", "ExistingProcessTransport"}


(***************************************************************************)
(* Connections over a registry-spawned process                             *)
(***************************************************************************)

\* The process has received no signal, has not ended, and no stop() call
\* has been made on its handle.
Untouched(n) ==
    /\ child[n].alive = "running"
    /\ ~child[n].killed /\ ~child[n].exitCode /\ ~child[n].signalCode
    /\ ~child[n].closeEmitted
    /\ child[n].graceful = 0 /\ child[n].sigkill = 0
    /\ stops[n] = << >>

\* C28: as long as registry.close() has not begun to close the server
\* processes, every registry-spawned process is running, unsignalled and
\* without a stop() call, however many leases on it have been closed and
\* however many shared clients, with their ExistingProcessTransport, have
\* been closed.
C28_CloseLeavesProcess ==
    reg.phase \in {"open", "closingClients"} => \A n \in Spawned : Untouched(n)

\* The last lease of a spawned process was closed, its shared client and
\* transport are closed, the registry is open and a fresh connection to
\* the same process has been made since.
C28_Witness ==
    /\ reg.phase = "open"
    /\ \E l \in Ids :
          /\ lease[l].name \in Spawned
          /\ lease[l].toreDown
          /\ lease[l].closeState = "fulfilled"
          /\ entry[lease[l].entry].closes > 0
    /\ \E k \in Ids : lease[k].name \in Spawned /\ lease[k].state = "held"
    /\ \A n \in Spawned : child[n].transports = 1


(***************************************************************************)
(* Order of the authorization-server sources                               *)
(***************************************************************************)

SourceRank(source) ==
    CASE source = "listed" -> 1
      [] source = "issuer" -> 2
      [] source = "origin" -> 3

\* C30: a probe of a server with stable answers asks the authorization
\* servers in the order listed server, issuer hint, own origin; when it
\* returns metadata, that is the answer of the last server asked and every
\* server asked before had none; when it returns without metadata, the
\* origin has been asked; and when the origin hosts metadata, the probe
\* returns metadata.
C30_SourcesInOrder ==
    probe.pc = "done" =>
        /\ \A j, k \in DOMAIN probe.asked :
              j < k => SourceRank(probe.asked[j].source) <= SourceRank(probe.asked[k].source)
        /\ probe.metadata # NoAsMetadata =>
              /\ probe.asked # << >>
              /\ web.as[probe.asked[Len(probe.asked)].server].status = "ok"
              /\ web.as[probe.asked[Len(probe.asked)].server].body = probe.metadata
              /\ \A k \in 1..(Len(probe.asked) - 1) :
                    web.as[probe.asked[k].server].status # "ok"
        /\ probe.metadata = NoAsMetadata =>
              \E k \in DOMAIN probe.asked : probe.asked[k].source = "origin"
        /\ web.as["self"].status = "ok" => probe.metadata # NoAsMetadata

(***************************************************************************)
(* discoverProtectedResourceMetadata: which document it returns.           *)
(***************************************************************************)

\* discoverProtectedResourceMetadata has returned to probeAuthCapabilities.
PrmReturned ==
    probe.pc \notin {"idle", "headerGet", "headerPost", "headerMetadata",
                     "root", "subPathOfRoot", "subPath"}

NoUsableToken ==
    /\ auth.op = "ensureAuthenticated" /\ auth.pc # "lookup"
    /\ auth.found = NoToken \/ auth.deletes > 0

\* C32: when no usable stored token exists (none stored, or it was
\* discarded) and one of registrationEndpoint, authorizationEndpoint and
\* tokenEndpoint is missing, ensureAuthenticated fails with the error naming
\* the missing endpoints, and has sent no registration request and started
\* no authorization flow (and so no callback listener).
C32_MissingEndpointsFailEarly ==
    (NoUsableToken /\ ~AllEndpoints(auth.caps)) =>
        /\ auth.pc = "done" /\ auth.result = "failed"
        /\ auth.error = "Server does not provide required OAuth endpoints"
        /\ auth.registrations = 0 /\ auth.flows = 0

\* A stored token was discarded and the call failed on capabilities that
\* lack only the authorization endpoint.
C32_Witness ==
    /\ NoUsableToken /\ auth.deletes > 0 /\ auth.found # NoToken
    /\ auth.caps.registrationEndpoint /\ ~auth.caps.authorizationEndpoint
    /\ auth.result = "failed" /\ auth.registrations = 0

(***************************************************************************)
(* The authorization attempt as a state machine.                           *)
(***************************************************************************)

\* The states of an attempt, in order: idle (0), listening (1),
\* awaiting-redirect (2), exchanging (3), complete or failed (4, 5).
AttemptRank(pc) ==
    CASE pc \in {"idle", "pkce"} -> 0
      [] pc = "start" -> 1
      [] pc = "wait" -> 2
      [] pc = "exchange" -> 3
      [] pc = "finally" -> 4
      [] pc = "done" -> 5

\* What a wait that did not deliver a code settled with.
WaitFailures == {"error", "missingCode", "timeout"}

\* C33: an authorization attempt only moves forward through idle,
\* listening, awaiting-redirect, exchanging and complete or failed; the
\* token endpoint is contacted at most once, and only when the wait was
\* settled by a callback carrying a code; a wait settled by an error
\* callback, a callback without code or the timeout is never followed by a
\* request to the token endpoint and ends the attempt as failed.
C33_AttemptMovesForward ==
    [][/\ AttemptRank(flow'.pc) >= AttemptRank(flow.pc)
       /\ flow'.exchanges <= 1
       /\ flow'.exchanges > flow.exchanges =>
             /\ flow.pc = "wait" /\ flow.wait = "code"
             /\ flow'.pc = "exchange"
       /\ flow'.pc = "exchange" => flow'.exchanges = 1 /\ flow'.wait = "code"
       /\ flow'.wait \in WaitFailures =>
             /\ flow'.exchanges = 0
             /\ flow'.pc \in {"wait", "finally", "done"}
             /\ flow'.pc = "done" => flow'.outcome = flow'.wait
       /\ (flow'.pc = "done" /\ flow'.outcome = "tokens") =>
             flow'.exchanges = 1 /\ flow'.wait = "code"]_vars

\* An attempt ended as failed on a callback without code, and the token
\* endpoint was not contacted.
C33_Witness ==
    /\ flow.pc = "done" /\ flow.wait = "missingCode"
    /\ flow.outcome = "missingCode" /\ flow.exchanges = 0

(***************************************************************************)
(* withTimeout: the race of an operation against its timer.                *)
(***************************************************************************)

\* The operations connectMcpClient runs under withTimeout.
TimedOps == {"discovery", "streamable", "sse"}

\* C34: withTimeout settles with the outcome of whichever of the wrapped
\* operation and the timer finishes first; when the timer wins, the error
\* names the operation and the bound in milliseconds; and the timer is no
\* longer pending once the wrapped operation has settled or the timeout
\* has fired, whichever of the two won.
C34_TimerNeverLeftPending ==
    \A op \in TimedOps :
        LET timer == http.timers[op]
            race == http.raced[op]
        IN /\ timer = "pending" <=> (op \in http.running /\ race.by = "none")
           /\ race.by = "operation" <=> timer = "cleared"
           /\ race.by = "timer" <=> timer = "fired"
           /\ race.by = "timer" =>
                 /\ race.ms = timeoutMs(op)
                 /\ race.operation = timeoutOperation(op)
           /\ (timer # "none" /\ op \notin http.running) => timer \in {"cleared", "fired"}

\* The Streamable HTTP attempt settled after its timer had fired, and the
\* SSE attempt settled before its own timer.
C34_Witness ==
    /\ http.timers["streamable"] = "fired" /\ "streamable" \notin http.running
    /\ http.raced["streamable"].by = "timer"
    /\ http.timers["sse"] = "cleared" /\ http.raced["sse"].by = "operation"

(***************************************************************************)
(* ExistingProcessTransport: listeners left after close                    *)
(***************************************************************************)

\* C35: after ExistingProcessTransport.close() the transport has no
\* listener left on the shared process or on its stdin and stdout streams,
\* so the listeners on a process are exactly those of the transports that
\* are started and not closed, whatever the number of connect/close cycles,
\* and a closed transport is never notified of the process closing.
C35_NoListenerLeftAfterClose ==
    \A n \in Spawned :
        /\ child[n].listeners.process = 2 * child[n].transports
        /\ child[n].listeners.stdout = 2 * child[n].transports
        /\ child[n].listeners.stdin = child[n].transports
        /\ child[n].late = 0

(***************************************************************************)
(* A failed shared connection attempt                                      *)
(***************************************************************************)

\* C36: when the shared connection attempt of an entry fails, every call
\* waiting on it is rejected and none gets a lease, the step leaves
\* registry.clients unchanged and no tracked client is on the entry, the
\* entry counts no reference and is no longer in sharedStdioClients, and a
\* connect call made for the name afterwards is served by another entry,
\* on a connection attempt of its own.
C36_FailedAttemptCleansUp ==
    [][\A e \in Ids :
         entry'[e].status = "failed" =>
           /\ entry[e].status = "connecting" => clients' = clients
           /\ entry'[e].refs = 0
           /\ sharedStdioClients'[entry'[e].name] # e
           /\ \A i \in DOMAIN clients' : lease'[clients'[i]].entry # e
           /\ \A l \in Ids :
                lease'[l].entry = e =>
                  /\ lease'[l].state \in {"waiting", "rejected"}
                  /\ lease'[l].state = "waiting" => l \in Range(entry'[e].waiters)
                  /\ lease[l].state # "none"
           /\ \A l \in Ids :
                (/\ entry[e].status = "failed"
                 /\ lease[l].state = "none"
                 /\ lease'[l].name = entry[e].name) =>
                    /\ lease'[l].entry \notin {0, e}
                    /\ entry'[lease'[l].entry].attempts = 1]_vars

\* An attempt failed with two calls waiting on it: both were rejected, and
\* a later call for the name is waiting on the attempt of a new entry.
C36_Witness ==
    \E e \in Ids :
      /\ entry[e].status = "failed" /\ entry[e].attempts = 1
      /\ Cardinality({l \in Ids : lease[l].entry = e /\ lease[l].state = "rejected"}) = 2
      /\ \E m \in Ids :
           /\ lease[m].name = entry[e].name /\ lease[m].entry \notin {0, e}
           /\ entry[lease[m].entry].status = "connecting"

(***************************************************************************)
(* The reference count of a stdio server name                              *)
(***************************************************************************)

\* The leases handed out for name n and not yet closed.
HeldFor(n) == {l \in Ids : lease[l].name = n /\ lease[l].state = "held"}

\* The reference count kept for name n: refs of its entry in
\* sharedStdioClients, 0 when the name has no entry.
RefsOf(n) ==
    IF sharedStdioClients[n] = 0 THEN 0 ELSE entry[sharedStdioClients[n]].refs

\* The counts are exact entry by entry: refs is the number of leases held
\* on the entry, and each lease called close() on the client at most once.
RefsExactPerEntry ==
    \A e \in Ids :
        /\ entry[e].refs = Cardinality(Held(e))
        /\ entry[e].closes =
              Cardinality({l \in Ids : lease[l].entry = e /\ lease[l].toreDown})

\* C37: for each stdio server name the reference count equals the number
\* of leases handed out and not yet closed and is never negative; a lease
\* closed more than once is counted out once and calls close() on the
\* shared client at most once.
C37_RefsCountLeases ==
    /\ \A n \in Names : RefsOf(n) = Cardinality(HeldFor(n)) /\ RefsOf(n) >= 0
    /\ \A e \in Ids : entry[e].refs >= 0
    /\ RefsExactPerEntry

(***************************************************************************)
(* Connections completing during registry.close()                          *)
(***************************************************************************)

\* C38: a registry.connect() that completes while registry.close() is in
\* progress is not leaked: at the step in which registry.close() resolves,
\* every client a connect call has returned has been closed and
\* registry.clients is empty.
C38_NoClientLeakedByClose ==
    [][(reg.phase # "closed" /\ reg'.phase = "closed") =>
          /\ clients' = << >>
          /\ \A l \in Ids : lease'[l].state # "held"]_vars

(***************************************************************************)
(* Protocol clients left open by connectMcpClient                          *)
(***************************************************************************)

\* C39: on every exit path of connectMcpClient, close() has been invoked on
\* each protocol client it created other than the one it returns, the
\* Streamable HTTP client included when the SSE fallback succeeds and when
\* the Streamable HTTP attempt was abandoned on timeout.
C39_UnreturnedClientsClosed ==
    http.pc = "done" =>
        \A c \in http.created : c # http.result => http.closes[c] # "no"

(***************************************************************************)
(* OAuthCallbackListener driven by a caller of its own: start(),           *)
(* waitForCallback(), stop().                                              *)
(***************************************************************************)

\* new OAuthCallbackListener(...).start() (lines 40-62).
ListenerStart ==
    /\ flow.pc = "idle"
    /\ flow' = [listenerStart(flow) EXCEPT !.pc = "listen"]
    /\ UNCHANGED <<http, boot, procVars, negVars, regVars, authVars>>

\* server.listen calls back and start() resolves, or the server emits
\* 'error' and start() rejects (lines 54-60).
ListenerListening(ok) ==
    /\ flow.pc = "listen"
    /\ flow' = IF ok THEN [flow EXCEPT !.pc = "started", !.handle = "listening"]
               ELSE [flow EXCEPT !.pc = "stopped", !.handle = "failed",
                                 !.outcome = "bindFailed"]
    /\ UNCHANGED <<http, boot, procVars, negVars, regVars, authVars>>

\* waitForCallback(timeoutMs) is called (lines 155-166), at any time after
\* start() resolved.
WaitForCallback ==
    /\ flow.pc = "started"
    /\ flow' = [flow EXCEPT !.pc = "waiting", !.callbacks = TRUE,
                            !.timeout = TRUE, !.wait = "pending"]
    /\ UNCHANGED <<http, boot, procVars, negVars, regVars, authVars>>

\* The caller resumes from its await of waitForCallback.
ListenerWaitSettles ==
    /\ flow.pc = "waiting"
    /\ flow.wait \notin {"none", "pending"}
    /\ flow' = [flow EXCEPT !.pc = "settled", !.outcome = flow.wait]
    /\ UNCHANGED <<http, boot, procVars, negVars, regVars, authVars>>

\* The caller calls stop() (lines 171-188).
ListenerStop ==
    /\ flow.pc \in {"started", "settled"}
    /\ flow' = listenerStop([flow EXCEPT !.pc = "stopped"], "caller")
    /\ UNCHANGED <<http, boot, procVars, negVars, regVars, authVars>>

NextListener ==
    \/ ListenerStart
    \/ \E ok \in BOOLEAN : ListenerListening(ok)
    \/ WaitForCallback
    \/ \E kind \in CallbackKinds : CallbackRequest(kind)
    \/ ConnectionEnds
    \/ CallbackTimeout
    \/ ListenerWaitSettles
    \/ ListenerStop
    \/ ListenerCloseEvent

SpecListener == InitFlow /\ [][NextListener]_vars

\* C40: a /callback request carrying a code that reaches the listener
\* after start() resolved makes waitForCallback resolve with that code,
\* also when it arrived before waitForCallback() was called: once the wait
\* has been asked for, it is resolved with the code if the first callback
\* received carried one; and a wait settled by a callback keeps its outcome
\* whatever callbacks follow.
C40_EarlyCallbackDelivered ==
    [][/\ (/\ flow'.wait # "none"
           /\ flow'.received # << >>
           /\ flow'.received[1] = "code") => flow'.wait = "code"
       /\ flow.wait \in {"code", "error", "missingCode"} => flow'.wait = flow.wait]_vars

====
